---- MODULE Spec2Model ----
(***************************************************************************)
(* Model of the risk / purge workflow of the Telegram admin bot            *)
(* (src/Main.py).                                                          *)
(*                                                                         *)
(* Scheduling.  The Application is built without concurrent_updates        *)
(* (src/Main.py:2795), so updates are processed one after the other and    *)
(* every handler runs to its end (or to the exception that leaves it)      *)
(* before the next update is looked at.  One action therefore models one   *)
(* whole handler run.  A gateway call that the handler does not guard with *)
(* try/except may raise: the action then ends at that call, with the       *)
(* effects made so far kept and the conversation state unchanged.          *)
(*                                                                         *)
(* Risk records.  risk_data is the content of risk_data.json.  The code    *)
(* keeps a dict user -> list of records; the model keeps the records in    *)
(* one sequence in creation order, the index being the risk_id, and        *)
(* UserRisks(rd, u) is the list stored under key u.  Lists of records held *)
(* in a session are sequences of risk ids: the handlers read only the      *)
(* immutable fields (risk_id, user_id, group_id) of such a snapshot.       *)
(***************************************************************************)
EXTENDS Integers, Sequences, FiniteSets, TLC

\* ---------------------------------------------------------------- bounds
MaxRisks == 2        \* records ever created
MaxConditions == 1   \* conditions /addcondition stores at one time, over all groups
MaxPrompts == 2      \* approve/deny prompts of one user live at one time
MaxGroupConditions == 2   \* conditions stored at one time when the group commands run

\* ------------------------------------------------------------- constants
OWNER_ID == 3        \* the owner's Telegram id, here an id no modelled user has
CONFIRM_PURGE == 6
AWAIT_CONDITION_VERIFICATION == 7
END == -1            \* ConversationHandler.END: no conversation is open
None == 0            \* Python None, for message ids, risk ids, condition ids
MessageId == 1       \* posted_message.message_id: the handlers only test it for
                     \* truth and hand it back to delete_message

Users == {1, 2}                  \* users who take risks and purge
Groups == {"g1", "g2"}
ConditionIds == {1}              \* values of uuid4().hex[:5]
Commands == {"purge"}            \* the keys of COMMAND_MAP the model follows
\* the admin-only commands of COMMAND_MAP the model follows
AdminCommands == {"disable", "enable", "addcondition", "removecondition"}
COMMAND_MAP == Commands \cup AdminCommands
SessionKeys == {"risks_to_purge_with_conditions",
                "risks_to_purge_without_conditions",
                "risks_to_purge", "current_condition"}

\* admins.json as it is unless /update has registered group admins: the
\* owner alone, with no group.  No modelled user administers a group.
OwnerOnly == [a \in {OWNER_ID} |-> {}]

VARIABLES
  risk_data,          \* risk_data.json
  conditions_data,    \* conditions.json: group -> list of condition ids
  disabled_commands,  \* disabled_commands.json: group -> set of commands
  user_data,          \* context.application.user_data, the purge keys
  purge_conv,         \* purge_conv_handler's state of each user
  beg_conv,           \* risk_conv_handler: the risk id a user in AWAIT_BEGGING may beg for
  seerisk_buttons,    \* risk ids with a live /seerisk keyboard in some admin chat
  verify_prompts,     \* per user: the approve/deny prompts for them in admin chats
  last,               \* history: what the last handler run did
  files,              \* the text at the paths of risk_data.json, its .tmp and .corrupted
  store_proc,         \* the process where it reads and writes risk_data.json step by step
  timer_settings,     \* timer_settings.json: the groups with a deletion timer
  deletion_jobs,      \* job queue: risk ids whose posted message has a deletion job
  expired,            \* history: risk ids whose posted message a deletion job deleted
  untracked,          \* history: risk ids with a group message no record references
  finalize_runs,      \* the Finalize runs followed step by step, per user
  hashtag_data,       \* hashtag_data.json: the tags that are dynamic commands
  admin_data,         \* admins.json: admin id -> the groups they administer
  admin_prompts       \* the approve/deny prompts in the chats of group admins

\* The variables only the risk store process, the timer and the stepwise
\* Finalize change.
store_vars == <<files, store_proc, hashtag_data, admin_data, admin_prompts>>
timer_vars == <<timer_settings, deletion_jobs, expired, untracked>>

\* The variables of the handlers, which the store process leaves alone.
bot_vars == <<risk_data, conditions_data, disabled_commands, user_data, purge_conv,
              beg_conv, seerisk_buttons, verify_prompts, last>>

vars == <<risk_data, conditions_data, disabled_commands, user_data, purge_conv,
          beg_conv, seerisk_buttons, verify_prompts, last, files, store_proc,
          timer_settings, deletion_jobs, expired, untracked, finalize_runs,
          hashtag_data, admin_data, admin_prompts>>

\* ---------------------------------------------------------------- helpers
Range(s) == {s[i] : i \in 1..Len(s)}

RECURSIVE SeqOfSet(_)
\* the ids of a set in increasing order: the order of the stored list
SeqOfSet(S) ==
  IF S = {} THEN <<>>
  ELSE LET m == CHOOSE x \in S : \A y \in S : x <= y
       IN <<m>> \o SeqOfSet(S \ {m})

\* risk_data.get(str(user_id), []) as the list of its risk ids
UserRisks(rd, u) == SeqOfSet({i \in 1..Len(rd) : rd[i].user_id = u})

is_owner(user_id) == user_id = OWNER_ID

is_admin(user_id) ==
  \/ is_owner(user_id)
  \/ (user_id \in DOMAIN admin_data /\ admin_data[user_id] # {})

\* dict.get(key, default) on a store whose keys are DOMAIN d
Get(d, key, default) == IF key \in DOMAIN d THEN d[key] ELSE default

\* d[key] = value
Put(d, key, value) ==
  [k \in DOMAIN d \cup {key} |-> IF k = key THEN value ELSE d[k]]

\* del d[key]
Del(d, key) == [k \in DOMAIN d \ {key} |-> d[k]]

\* 'purge' in disabled_commands.get(str(group_id), [])
PurgeDisabled(dc, g) == "purge" \in Get(dc, g, {})

\* conditions_data.get(group_id) is truthy
HasCondition(cd, g) == Get(cd, g, <<>>) # <<>>

\* ------------------------------------------------------ _delete_and_mark_risks
\* Lines 1494-1497: the record after it was processed.
MarkPurged(rec) ==
  [rec EXCEPT !.purged = TRUE, !.posted_message_id = None, !.seerisk_messages = FALSE]

\* Line 1482: the record has a posted message to delete.
HasPostedMessage(rec) == rec.posted_message_id # None

\* Fault variant of FinalizeStep: a failed delete leaves the record as it
\* was (the exception of line 1490 taken as the end of the iteration).
FinalizeStepSkipsFailed(st, user_id, risk_id, delete_fails, edit_fails) ==
  IF ~(risk_id \in 1..Len(st.rd) /\ st.rd[risk_id].user_id = user_id)
  THEN [st EXCEPT !.failure_count = @ + 1]
  ELSE
    LET rec == st.rd[risk_id]
        attempt == rec.posted_message_id # None
        ok == attempt /\ risk_id \notin delete_fails
        ko == attempt /\ risk_id \in delete_fails
    IN [rd |-> IF ko THEN st.rd ELSE [st.rd EXCEPT ![risk_id] = MarkPurged(rec)],
        success_count |-> st.success_count + (IF ok THEN 1 ELSE 0),
        failure_count |-> st.failure_count + (IF ko THEN 1 ELSE 0),
        deleted |-> st.deleted \cup (IF ok THEN {risk_id} ELSE {}),
        failed |-> st.failed \cup (IF ko THEN {risk_id} ELSE {}),
        unbuttoned |-> st.unbuttoned \cup
           (IF rec.seerisk_messages /\ risk_id \notin edit_fails THEN {risk_id} ELSE {}),
        already |-> st.already \cup (IF rec.purged THEN {risk_id} ELSE {})]

\* Fault variant of FinalizeStep: success_count counts every record marked,
\* not every message deleted (the increment of line 1485 moved out of the
\* test of line 1482).
FinalizeStepCountsMarked(st, user_id, risk_id, delete_fails, edit_fails) ==
  IF ~(risk_id \in 1..Len(st.rd) /\ st.rd[risk_id].user_id = user_id)
  THEN [st EXCEPT !.failure_count = @ + 1]
  ELSE
    LET rec == st.rd[risk_id]
        attempt == rec.posted_message_id # None
        ok == attempt /\ risk_id \notin delete_fails
        ko == attempt /\ risk_id \in delete_fails
    IN [rd |-> [st.rd EXCEPT ![risk_id] = MarkPurged(rec)],
        success_count |-> st.success_count + (IF ko THEN 0 ELSE 1),
        failure_count |-> st.failure_count + (IF ko THEN 1 ELSE 0),
        deleted |-> st.deleted \cup (IF ok THEN {risk_id} ELSE {}),
        failed |-> st.failed \cup (IF ko THEN {risk_id} ELSE {}),
        unbuttoned |-> st.unbuttoned \cup
           (IF rec.seerisk_messages /\ risk_id \notin edit_fails THEN {risk_id} ELSE {}),
        already |-> st.already \cup (IF rec.purged THEN {risk_id} ELSE {})]

\* Fault variant of FinalizeStep: the marking of lines 1494-1497 is applied
\* to every record of user_risks, not to the record found for the batch item.
FinalizeStepMarksUser(st, user_id, risk_id, delete_fails, edit_fails) ==
  IF ~(risk_id \in 1..Len(st.rd) /\ st.rd[risk_id].user_id = user_id)
  THEN [st EXCEPT !.failure_count = @ + 1]
  ELSE
    LET rec == st.rd[risk_id]
        attempt == HasPostedMessage(rec)
        ok == attempt /\ risk_id \notin delete_fails
        ko == attempt /\ risk_id \in delete_fails
    IN [rd |-> [j \in 1..Len(st.rd) |->
                  IF st.rd[j].user_id = user_id THEN MarkPurged(st.rd[j]) ELSE st.rd[j]],
        success_count |-> st.success_count + (IF ok THEN 1 ELSE 0),
        failure_count |-> st.failure_count + (IF ko THEN 1 ELSE 0),
        deleted |-> st.deleted \cup (IF ok THEN {risk_id} ELSE {}),
        failed |-> st.failed \cup (IF ko THEN {risk_id} ELSE {}),
        unbuttoned |-> st.unbuttoned \cup
           (IF rec.seerisk_messages /\ risk_id \notin edit_fails THEN {risk_id} ELSE {}),
        already |-> st.already \cup (IF rec.purged THEN {risk_id} ELSE {})]

\* One iteration of the loop of lines 1462-1497 on the i-th record of the batch.
\* st = [rd, success_count, failure_count, deleted, failed, unbuttoned, already];
\* deleted / failed: the risk ids whose delete_message call succeeded / raised;
\* already: the risk ids found purged when their turn came;
\* delete_fails / edit_fails: the risk ids for which the gateway's
\* delete_message / edit_message_reply_markup raises.
FinalizeStep(st, user_id, risk_id, delete_fails, edit_fails) ==
  IF ~(risk_id \in 1..Len(st.rd) /\ st.rd[risk_id].user_id = user_id)
  THEN [st EXCEPT !.failure_count = @ + 1]
  ELSE
    LET rec == st.rd[risk_id]
        attempt == HasPostedMessage(rec)
        ok == attempt /\ risk_id \notin delete_fails
        ko == attempt /\ risk_id \in delete_fails
    IN [rd |-> [st.rd EXCEPT ![risk_id] = MarkPurged(rec)],
        success_count |-> st.success_count + (IF ok THEN 1 ELSE 0),
        failure_count |-> st.failure_count + (IF ko THEN 1 ELSE 0),
        deleted |-> st.deleted \cup (IF ok THEN {risk_id} ELSE {}),
        failed |-> st.failed \cup (IF ko THEN {risk_id} ELSE {}),
        unbuttoned |-> st.unbuttoned \cup
           (IF rec.seerisk_messages /\ risk_id \notin edit_fails THEN {risk_id} ELSE {}),
        already |-> st.already \cup (IF rec.purged THEN {risk_id} ELSE {})]

RECURSIVE FinalizeLoop(_, _, _, _, _, _)
FinalizeLoop(st, batch, i, user_id, delete_fails, edit_fails) ==
  IF i > Len(batch) THEN st
  ELSE FinalizeLoop(FinalizeStep(st, user_id, batch[i], delete_fails, edit_fails),
                    batch, i + 1, user_id, delete_fails, edit_fails)

\* _delete_and_mark_risks(risks_to_process, context): the store it saves, the
\* counts it returns and what it asked of the gateway.  saved is FALSE on the
\* early return of line 1455.
Finalize(rd, batch, delete_fails, edit_fails) ==
  LET st0 == [rd |-> rd, success_count |-> 0, failure_count |-> 0,
              deleted |-> {}, failed |-> {}, unbuttoned |-> {}, already |-> {}]
  IN IF batch = <<>>
     THEN st0 @@ [saved |-> FALSE]
     ELSE FinalizeLoop(st0, batch, 1, rd[batch[1]].user_id, delete_fails, edit_fails)
            @@ [saved |-> TRUE]

\* ---------------------------------------------------------------- history
\* What one run of a purge handler did.  op: the handler; user: the user it
\* acted for; raised: it was left by an unguarded gateway exception; reply:
\* the kind of message it sent to its requester; fins: the Finalize runs it
\* made, in order; saved: save_risk_data was called; cands: the candidate
\* list of a purge request; arg: context.args[0] of a /purge command (None
\* when it had no argument); named: the groups the reply names as left out
\* because they have disabled 'purge'; msgs: the messages it delivered to
\* the user it acted for (to the admin, for the admin purge), in order,
\* edits of the confirmation prompt included.
Log(op, user) ==
  [op |-> op, user |-> user, raised |-> FALSE, reply |-> "none", fins |-> <<>>,
   saved |-> FALSE, cands |-> <<>>, arg |-> None, named |-> {}, msgs |-> <<>>,
   admin_ids |-> {}]

\* The history after a handler outside the purge workflow.
NoLog == Log("other", None)

\* One Finalize run as the history keeps it: its batch, the counts it
\* returned, the risk ids whose delete_message call succeeded (deleted) or
\* raised (failed), those that were purged before it ran (already), and
\* those whose group had 'purge' disabled when the request that chose the
\* batch was made (disabled).
FinLog(batch, fin, disabled) ==
  [batch |-> batch, success_count |-> fin.success_count,
   failure_count |-> fin.failure_count, deleted |-> fin.deleted, failed |-> fin.failed,
   already |-> fin.already, disabled |-> Range(batch) \cap disabled]

LogFinalize(lg, batch, fin, disabled) ==
  [lg EXCEPT !.fins = Append(@, FinLog(batch, fin, disabled)), !.saved = @ \/ fin.saved]

\* A message without counts, by its kind.
Msg(kind) == [kind |-> kind, success_count |-> 0, failure_count |-> 0]

\* Fault variant of CountsMsg: the summary reports every record of the
\* batch as a success.
CountsMsgAllSucceeded(fin) ==
  [kind |-> "counts", success_count |-> fin.success_count + fin.failure_count,
   failure_count |-> 0]

\* The response_message built from the counts Finalize returned (lines
\* 1561-1565, 1654-1659, 1726-1730, 1775-1780).
CountsMsg(fin) ==
  [kind |-> "counts", success_count |-> fin.success_count,
   failure_count |-> fin.failure_count]

\* ------------------------------------------------------------------- Init
\* The purge keys of one user's user_data: keys holds the keys present, the
\* other fields their values (<<>> / None when the key is absent).
\* req_disabled and rtp_disabled are history: the records of the two
\* partitions, respectively of risks_to_purge, whose group had 'purge'
\* disabled when the request that built the partitions was made.
NoSession ==
  [keys |-> {}, risks_to_purge_with_conditions |-> <<>>,
   risks_to_purge_without_conditions |-> <<>>, risks_to_purge |-> <<>>,
   current_condition |-> None, req_disabled |-> {}, rtp_disabled |-> {}]

\* The directory of the risk store, path -> text of the file there: the
\* paths are "risk" (RISK_DATA_FILE), "tmp" (its .json.tmp) and "corrupted"
\* (its .json.corrupted).  No file yet.
NoFiles == <<>>

\* The store process between two calls of load_risk_data / save_risk_data.
\* data, text: the mapping save_risk_data was given and what json.dump has
\* still to write; before: the file at "risk" when the save began;
\* load_status, load_value: the outcome of the last load_risk_data; crashed:
\* the process died inside the last save.
IdleProc ==
  [pc |-> "idle", data |-> <<>>, text |-> <<>>, before |-> <<>>,
   load_status |-> "none", load_value |-> <<>>, crashed |-> FALSE]

\* No Finalize is being followed step by step.
NoRun == [pc |-> "idle", batch |-> <<>>, local |-> <<>>]

\* The start of the parts of the bot that only some specifications move:
\* no store file, no timer, no job, no Finalize in progress.
InitRest ==
  /\ files = NoFiles
  /\ store_proc = IdleProc
  /\ timer_settings = {}
  /\ deletion_jobs = {}
  /\ expired = {}
  /\ untracked = {}
  /\ finalize_runs = [u \in Users |-> NoRun]
  /\ hashtag_data = {}
  /\ admin_data = OwnerOnly
  /\ admin_prompts = {}

Init ==
  /\ risk_data = <<>>
  /\ conditions_data = <<>>
  /\ disabled_commands = <<>>
  /\ user_data = [u \in Users |-> NoSession]
  /\ purge_conv = [u \in Users |-> END]
  /\ beg_conv = [u \in Users |-> None]
  /\ seerisk_buttons = [taunt |-> {}, post |-> {}]
  /\ verify_prompts = [u \in Users |-> 0]
  /\ last = NoLog
  /\ InitRest

\* ------------------------------------------------------ the risk conversation
\* Fault variant of NewRisk: the record is built as posted.
NewRiskAsPosted(u, g, should_post_automatically) ==
  [user_id |-> u, group_id |-> g, risk_failed |-> should_post_automatically,
   posted_message_id |-> MessageId, purged |-> FALSE, seerisk_messages |-> FALSE]

\* Lines 1035-1046: the record receive_media_handler builds.
NewRisk(u, g, should_post_automatically) ==
  [user_id |-> u, group_id |-> g, risk_failed |-> should_post_automatically,
   posted_message_id |-> None, purged |-> FALSE, seerisk_messages |-> FALSE]

\* Fault variant of SetPosted: posting a record takes it back into
\* circulation, so a posted record is no longer purged.
SetPostedUnpurges(rd, risk_id, message_id) ==
  [rd EXCEPT ![risk_id].posted_message_id = message_id, ![risk_id].purged = FALSE]

\* target_risk['posted_message_id'] = posted_message.message_id
SetPosted(rd, risk_id, message_id) ==
  [rd EXCEPT ![risk_id].posted_message_id = message_id]

\* The deletion jobs and the deleted messages that still concern a record
\* after a handler has written the store: a job or a deletion counts for the
\* message the record references, so it is dropped for a record that has
\* been posted anew (reposted) or references no message any more; scheduled
\* are the records whose new message schedule_message_deletion gave a job.
\* target_risk['posted_message_id'] = posted_message.message_id on a record
\* that references a message: the message stays in the group and no record
\* references it.  A message a deletion job has deleted or is still to
\* delete is not counted.
Overwritten(reposted) ==
  {i \in reposted : /\ risk_data[i].posted_message_id # None
                    /\ i \notin expired
                    /\ i \notin deletion_jobs}

JobsFollow(reposted, scheduled) ==
  LET concerns(ids) ==
        {i \in ids \ reposted : risk_data'[i].posted_message_id # None}
  IN /\ deletion_jobs' = concerns(deletion_jobs) \cup scheduled
     /\ expired' = concerns(expired)
     /\ untracked' = untracked \cup Overwritten(reposted)

\* receive_media_handler, unlucky draw (lines 1048-1083).  posted: the group
\* post succeeded; completed: no unguarded send raised before the save of
\* line 1081 (the send of line 1076 runs only after a failure inside the try).
ReceiveMediaUnlucky(u, g, posted, completed) ==
  /\ Len(risk_data) < MaxRisks
  /\ beg_conv[u] = None
  /\ risk_data' =
       IF completed
       THEN Append(risk_data,
                   [NewRisk(u, g, TRUE) EXCEPT
                      !.posted_message_id = IF posted THEN MessageId ELSE None])
       ELSE risk_data
  /\ last' = NoLog
  /\ JobsFollow({}, IF completed /\ posted /\ g \in timer_settings
                     THEN {Len(risk_data) + 1} ELSE {})
  /\ UNCHANGED <<conditions_data, disabled_commands, store_vars, timer_settings, finalize_runs, user_data, purge_conv, beg_conv,
                 seerisk_buttons, verify_prompts>>

\* receive_media_handler, lucky draw (lines 1085-1107): the record is saved,
\* then the beg keyboard is sent (unguarded).
ReceiveMediaLucky(u, g, sent) ==
  /\ Len(risk_data) < MaxRisks
  /\ beg_conv[u] = None
  /\ risk_data' = Append(risk_data, NewRisk(u, g, FALSE))
  /\ beg_conv' = IF sent THEN [beg_conv EXCEPT ![u] = Len(risk_data) + 1] ELSE beg_conv
  /\ last' = NoLog
  /\ UNCHANGED <<conditions_data, disabled_commands, store_vars, timer_vars, finalize_runs, user_data, purge_conv, seerisk_buttons, verify_prompts>>

\* beg_callback_handler, 'beg_post_no' (lines 1120-1121, 1164-1170).
BegNo(u) ==
  /\ beg_conv[u] # None
  /\ beg_conv' = [beg_conv EXCEPT ![u] = None]
  /\ last' = NoLog
  /\ UNCHANGED <<risk_data, conditions_data, disabled_commands, store_vars, timer_vars, finalize_runs, user_data, purge_conv, seerisk_buttons, verify_prompts>>

\* beg_callback_handler, 'beg_post_yes' (lines 1122-1170).  posted: the group
\* post succeeded; ended: the closing edit_message_text (line 1158, or line
\* 1162 in the except branch) did not raise.
BegYes(u, posted, ended) ==
  /\ beg_conv[u] # None
  /\ risk_data' = IF posted THEN SetPosted(risk_data, beg_conv[u], MessageId)
                  ELSE risk_data
  /\ beg_conv' = IF ended THEN [beg_conv EXCEPT ![u] = None] ELSE beg_conv
  /\ last' = NoLog
  /\ JobsFollow(IF posted THEN {beg_conv[u]} ELSE {},
                IF posted /\ risk_data[beg_conv[u]].group_id \in timer_settings
                THEN {beg_conv[u]} ELSE {})
  /\ UNCHANGED <<conditions_data, disabled_commands, store_vars, timer_settings, finalize_runs, user_data, purge_conv,
                 seerisk_buttons, verify_prompts>>

\* ------------------------------------------------------------------ /seerisk
\* Line 1269: the 'Post Now' button is offered.
OffersPostNow(rec) == rec.risk_failed /\ rec.posted_message_id = None /\ ~rec.purged

\* Line 1274: the 'Post with Taunt' button is offered.
OffersTaunt(rec) == ~rec.purged

\* seerisk_command by an admin for target user t (lines 1197-1308).  shown:
\* the records whose media message, with its keyboard, was sent; completed:
\* the save of line 1308 was reached (a failed media send is followed by an
\* unguarded send_message, line 1305).
SeeriskRun(t, shown, completed) ==
  /\ UserRisks(risk_data, t) # <<>>
  /\ ~completed => \E i \in Range(UserRisks(risk_data, t)) : i \notin shown
  /\ seerisk_buttons' =
       [taunt |-> seerisk_buttons.taunt \cup shown,
        post |-> seerisk_buttons.post \cup {i \in shown : OffersPostNow(risk_data[i])}]
  /\ risk_data' =
       IF completed
       THEN [i \in 1..Len(risk_data) |->
               IF i \in shown THEN [risk_data[i] EXCEPT !.seerisk_messages = TRUE]
               ELSE risk_data[i]]
       ELSE risk_data
  /\ last' = NoLog
  /\ UNCHANGED <<conditions_data, disabled_commands, store_vars, timer_vars, finalize_runs, user_data, purge_conv, beg_conv, verify_prompts>>

Seerisk(t) ==
  \E shown \in SUBSET {i \in Range(UserRisks(risk_data, t)) : OffersTaunt(risk_data[i])},
     completed \in {TRUE, FALSE} : SeeriskRun(t, shown, completed)

\* The keyboard of the pressed message is removed (reply_markup=None); other
\* /seerisk messages of the same record may keep theirs.
Unbutton(risk_id, removed) ==
  IF removed
  THEN [taunt |-> seerisk_buttons.taunt \ {risk_id}, post |-> seerisk_buttons.post \ {risk_id}]
  ELSE seerisk_buttons

\* post_risk_callback, 'Post Now' (lines 1311-1375).  Line 1335 refuses a
\* record that has a posted message.
PostRisk(risk_id, posted, removed) ==
  /\ risk_id \in seerisk_buttons.post
  /\ posted => risk_data[risk_id].posted_message_id = None
  /\ removed => (posted \/ risk_data[risk_id].posted_message_id # None)
  /\ risk_data' = IF posted THEN SetPosted(risk_data, risk_id, MessageId)
                  ELSE risk_data
  /\ seerisk_buttons' = Unbutton(risk_id, removed)
  /\ last' = NoLog
  /\ JobsFollow(IF posted THEN {risk_id} ELSE {}, {})
  /\ UNCHANGED <<conditions_data, disabled_commands, store_vars, timer_settings, finalize_runs, user_data, purge_conv, beg_conv,
                 verify_prompts>>

\* post_risk_with_taunt_callback (lines 1378-1439).
PostRiskWithTaunt(risk_id, posted, removed) ==
  /\ risk_id \in seerisk_buttons.taunt
  /\ removed => posted
  /\ risk_data' = IF posted THEN SetPosted(risk_data, risk_id, MessageId)
                  ELSE risk_data
  /\ seerisk_buttons' = Unbutton(risk_id, removed)
  /\ last' = NoLog
  /\ JobsFollow(IF posted THEN {risk_id} ELSE {}, {})
  /\ UNCHANGED <<conditions_data, disabled_commands, store_vars, timer_settings, finalize_runs, user_data, purge_conv, beg_conv,
                 verify_prompts>>

\* ------------------------------------------------------------ /purge request
\* The list comprehension [r for r in s if r in keep].
RECURSIVE SelectIds(_, _)
SelectIds(s, keep) ==
  IF s = <<>> THEN <<>>
  ELSE (IF Head(s) \in keep THEN <<Head(s)>> ELSE <<>>) \o SelectIds(Tail(s), keep)

\* Fault variant of SelfPurgeable: every unpurged record, posted or not.
SelfPurgeableUnposted(rec) == ~rec.purged

\* Line 1574: a user purges only records that are posted and not purged.
SelfPurgeable(rec) == rec.posted_message_id # None /\ ~rec.purged

\* Fault variant of AdminCandidates: the test of line 1552 left out.
AdminCandidatesAll(rd, dc, t) == UserRisks(rd, t)

\* Fault variant of AdminCandidates: the admin purge, like the self-purge,
\* leaves the records of groups with conditions to a verification.
AdminCandidatesUnconditioned(rd, dc, t) ==
  SelectIds(UserRisks(rd, t),
            {i \in 1..Len(rd) : /\ ~PurgeDisabled(dc, rd[i].group_id)
                                /\ ~HasCondition(conditions_data, rd[i].group_id)})

\* Lines 1550-1553: an admin purge takes every record of the target whose
\* group has not disabled 'purge'.
AdminCandidates(rd, dc, t) ==
  SelectIds(UserRisks(rd, t),
            {i \in 1..Len(rd) : ~PurgeDisabled(dc, rd[i].group_id)})

\* Line 1574: risks_to_purge of the regular path.
SelfRisksToPurge(rd, u) ==
  SelectIds(UserRisks(rd, u), {i \in 1..Len(rd) : SelfPurgeable(rd[i])})

\* Fault variant of RisksWithConditions: the test of line 1597 left out.
RisksWithConditionsAll(rd, dc, cd, rtp) ==
  SelectIds(rtp, {i \in 1..Len(rd) : ~PurgeDisabled(dc, rd[i].group_id)})

\* Fault variant of RisksWithoutConditions: the test of line 1589 left out.
RisksWithoutConditionsAnyGroup(rd, dc, cd, rtp) ==
  SelectIds(rtp, {i \in 1..Len(rd) : ~HasCondition(cd, rd[i].group_id)})

\* Lines 1587-1600: the two partitions built from risks_to_purge.
RisksWithConditions(rd, dc, cd, rtp) ==
  SelectIds(rtp, {i \in 1..Len(rd) : /\ ~PurgeDisabled(dc, rd[i].group_id)
                                     /\ HasCondition(cd, rd[i].group_id)})

RisksWithoutConditions(rd, dc, cd, rtp) ==
  SelectIds(rtp, {i \in 1..Len(rd) : /\ ~PurgeDisabled(dc, rd[i].group_id)
                                     /\ ~HasCondition(cd, rd[i].group_id)})

\* The keyboards Finalize removed.
AfterFinalizeButtons(fin) ==
  [taunt |-> seerisk_buttons.taunt \ fin.unbuttoned,
   post |-> seerisk_buttons.post \ fin.unbuttoned]

\* The gateway outcomes a Finalize of batch can meet.
DeleteFailures(rd, batch) == SUBSET {i \in Range(batch) : HasPostedMessage(rd[i])}
EditFailures(rd, batch) == SUBSET {i \in Range(batch) : rd[i].seerisk_messages}

\* purge_command, admin path (lines 1526-1567): admin a, argument t.
\* replied: the closing reply_text did not raise.
PurgeAdminRun(a, t, delete_fails, edit_fails, replied) ==
  LET batch == AdminCandidates(risk_data, disabled_commands, t)
      fin == Finalize(risk_data, batch, delete_fails, edit_fails)
      \* the replies of lines 1556 and 1561-1566 carry the target's id and
      \* the two counts: named stays empty
      lg == [Log("purge_admin", t) EXCEPT !.cands = batch, !.raised = ~replied,
                                          !.arg = t]
  IN /\ is_admin(a)
     /\ risk_data' = fin.rd
     /\ seerisk_buttons' = AfterFinalizeButtons(fin)
     /\ last' = IF batch = <<>>
                THEN [lg EXCEPT !.reply = IF replied THEN "nothing" ELSE "none",
                                !.msgs = IF replied THEN <<Msg("nothing")>> ELSE <<>>]
                ELSE [LogFinalize(lg, batch, fin,
                                  {i \in Range(batch) :
                                     PurgeDisabled(disabled_commands, risk_data[i].group_id)})
                      EXCEPT
                        !.reply = IF replied THEN "summary" ELSE "none",
                        !.msgs = IF replied THEN <<CountsMsg(fin)>> ELSE <<>>]
     /\ JobsFollow({}, {})
     /\ UNCHANGED <<conditions_data, disabled_commands, store_vars, timer_settings, finalize_runs, user_data, purge_conv,
                    beg_conv, verify_prompts>>

PurgeAdmin(a, t, replied) ==
  LET batch == AdminCandidates(risk_data, disabled_commands, t)
  IN \E df \in DeleteFailures(risk_data, batch), ef \in EditFailures(risk_data, batch) :
        PurgeAdminRun(a, t, df, ef, replied)

\* Lines 1585-1595: disabled_groups_info, the groups of the records left
\* out because the group has disabled 'purge'.
DisabledGroupsInfo(rd, dc, rtp) ==
  {rd[i].group_id : i \in {j \in Range(rtp) : PurgeDisabled(dc, rd[j].group_id)}}

\* purge_command, regular path (lines 1569-1628), by user u.  arg: the
\* argument of the command, None when it has none: the path does not read
\* it.  entry: the update reached the handler as the conversation's entry
\* point ('/purge' while no purge conversation is open); otherwise it
\* reached the plain handler of add_command (lines 2763-2778, 2864), whose
\* return value is dropped.  replied: the closing reply_text did not raise.
PurgeRegular(u, arg, entry, replied) ==
  LET rtp == SelfRisksToPurge(risk_data, u)
      with == RisksWithConditions(risk_data, disabled_commands, conditions_data, rtp)
      without == RisksWithoutConditions(risk_data, disabled_commands, conditions_data, rtp)
      total_purgeable == Len(with) + Len(without)
      lg == [Log("purge_self", u) EXCEPT !.raised = ~replied, !.arg = arg]
  IN /\ entry => purge_conv[u] = END
     /\ IF total_purgeable = 0
        THEN /\ last' = [lg EXCEPT !.reply = IF replied THEN "nothing" ELSE "none",
                                   !.msgs = IF replied THEN <<Msg("nothing")>> ELSE <<>>]
             /\ UNCHANGED <<user_data, purge_conv>>
        ELSE /\ user_data' =
                  [user_data EXCEPT ![u] =
                     [@ EXCEPT !.keys = @ \cup {"risks_to_purge_with_conditions",
                                                "risks_to_purge_without_conditions"},
                               !.risks_to_purge_with_conditions = with,
                               !.risks_to_purge_without_conditions = without,
                               !.req_disabled =
                                  {i \in Range(with \o without) :
                                     PurgeDisabled(disabled_commands, risk_data[i].group_id)}]]
             /\ purge_conv' = IF entry /\ replied
                              THEN [purge_conv EXCEPT ![u] = CONFIRM_PURGE]
                              ELSE purge_conv
             /\ last' = [lg EXCEPT !.cands = with \o without,
                                   !.reply = IF replied THEN "prompt" ELSE "none",
                                   !.msgs = IF replied THEN <<Msg("prompt")>> ELSE <<>>,
                                   !.named = IF replied
                                             THEN DisabledGroupsInfo(risk_data,
                                                    disabled_commands, rtp)
                                             ELSE {}]
     /\ UNCHANGED <<risk_data, conditions_data, disabled_commands, store_vars, timer_vars, finalize_runs, beg_conv, seerisk_buttons, verify_prompts>>

\* '/purge' without argument by user u.
PurgeSelf(u, entry, replied) == PurgeRegular(u, None, entry, replied)

\* '/purge <t>' by actor a.  Line 1527: the admin path is taken when the
\* command has an argument and the actor is an admin; every other case
\* goes on to the regular path, for the actor's own records.
PurgeTargeted(a, t, entry, replied) ==
  IF is_admin(a) THEN PurgeAdmin(a, t, replied)
  ELSE PurgeRegular(a, t, entry, replied)

\* ------------------------------------------------------ send_random_condition
\* Lines 1639-1646: the conditions of the groups of the given records.
ApplicableConditions(rd, cd, rtp) ==
  UNION {Range(Get(cd, rd[i].group_id, <<>>)) : i \in Range(rtp)}

\* user_data.pop(key, None) for each key of ks
PopKeys(ud, ks) ==
  [ud EXCEPT
     !.keys = @ \ ks,
     !.risks_to_purge_with_conditions =
        IF "risks_to_purge_with_conditions" \in ks THEN <<>> ELSE @,
     !.risks_to_purge_without_conditions =
        IF "risks_to_purge_without_conditions" \in ks THEN <<>> ELSE @,
     !.risks_to_purge = IF "risks_to_purge" \in ks THEN <<>> ELSE @,
     !.current_condition = IF "current_condition" \in ks THEN None ELSE @]

\* Lines 1663-1665: what the no-condition branch removes.
FallbackCleanup(ud) ==
  PopKeys(ud, {"risks_to_purge", "risks_to_purge_with_conditions",
               "risks_to_purge_without_conditions"})

\* Fault variant of AdminIds: every registered admin is notified.
AdminIdsEveryAdmin(rd, rtp) == DOMAIN admin_data \cup {OWNER_ID}

\* Lines 1679-1686: the admins whose groups hold a record of risks_to_purge,
\* and the owner.
AdminIds(rd, rtp) ==
  LET group_ids == {rd[i].group_id : i \in Range(rtp)}
  IN {admin_id \in DOMAIN admin_data :
        \E g \in admin_data[admin_id] : g \in group_ids} \cup {OWNER_ID}

\* The prompt of lines 1688-1699 in the chat of a group admin: its buttons
\* carry the requester's id only; the condition it shows and the request
\* (the risks_to_purge) it was sent for are kept here to tell prompts apart.
Prompt(u, admin_id, condition, rtp) ==
  [user |-> u, admin |-> admin_id, cond |-> condition, batch |-> rtp]

\* The owner's prompts are counted in verify_prompts, not kept one by one.
OwnerPrompt(u) == Prompt(u, OWNER_ID, None, <<>>)

\* The prompts for requester u that the group admins of got received.
Copies(u, got, condition, rtp) == {Prompt(u, a, condition, rtp) : a \in got}

\* The points where send_random_condition can be left by an exception.
SrcFails == {"none", "src_first", "src_summary"}

\* send_random_condition(user, user_data, context) (lines 1630-1703) on the
\* session ud and the store rd.  choice: the value of random.choice;
\* fail: the unguarded send that raises ("src_first": line 1635, 1650 or
\* 1671; "src_summary": line 1660); notified: the owner received the prompt
\* (each send of lines 1696-1701 is guarded).  admin_ids: whom it notifies.
\* The result: the session and store it leaves, the Finalize it ran (fins),
\* the state it returns (ret), whether it raised, and what it sent.
SendRandomCondition(ud, rd, cd, choice, delete_fails, edit_fails, fail, notified) ==
  LET rtp == ud.risks_to_purge
      applicable == ApplicableConditions(rd, cd, rtp)
      fin == Finalize(rd, rtp, delete_fails, edit_fails)
      base == [ud |-> ud, rd |-> rd, fins |-> <<>>, saved |-> FALSE, ret |-> END,
               raised |-> fail # "none", reply |-> "none", prompted |-> FALSE,
               unbuttoned |-> {}, msgs |-> <<>>, admin_ids |-> {}]
  IN IF rtp = <<>>
     THEN [base EXCEPT !.reply = IF fail = "none" THEN "nothing" ELSE "none",
                       !.msgs = IF fail = "none" THEN <<Msg("nothing")>> ELSE <<>>]
     ELSE IF applicable = {}
     THEN IF fail = "src_first" THEN base
          ELSE [base EXCEPT
                  !.rd = fin.rd, !.fins = <<FinLog(rtp, fin, ud.rtp_disabled)>>, !.saved = fin.saved,
                  !.unbuttoned = fin.unbuttoned,
                  !.ud = IF fail = "none" THEN FallbackCleanup(ud) ELSE ud,
                  !.reply = IF fail = "none" THEN "summary" ELSE "none",
                  !.msgs = <<Msg("proceeding")>> \o
                           (IF fail = "none" THEN <<CountsMsg(fin)>> ELSE <<>>)]
     ELSE [base EXCEPT
             !.ud = [ud EXCEPT !.keys = @ \cup {"current_condition"},
                               !.current_condition = choice],
             !.ret = AWAIT_CONDITION_VERIFICATION,
             !.reply = IF fail = "none" THEN "condition" ELSE "none",
             !.msgs = IF fail = "none" THEN <<Msg("condition")>> ELSE <<>>,
             !.prompted = fail = "none" /\ notified,
             !.admin_ids = IF fail = "none" THEN AdminIds(rd, rtp) ELSE {}]

\* Fault variant of SrcChoices: the selection always takes the first of the
\* applicable conditions, so the others are never drawn.
SrcChoicesFirstOnly(ud, rd, cd) ==
  LET applicable == ApplicableConditions(rd, cd, ud.risks_to_purge)
  IN IF applicable = {} THEN {None}
     ELSE {CHOOSE c \in applicable : \A d \in applicable : c <= d}

\* The inputs send_random_condition can meet on session ud: line 1668,
\* random.choice(applicable_conditions), draws any applicable condition.
SrcChoices(ud, rd, cd) ==
  LET applicable == ApplicableConditions(rd, cd, ud.risks_to_purge)
  IN IF applicable = {} THEN {None} ELSE applicable

SrcFailOk(ud, rd, cd, fail) ==
  fail = "src_summary" =>
    (ud.risks_to_purge # <<>> /\ ApplicableConditions(rd, cd, ud.risks_to_purge) = {})

\* One more approve/deny prompt for user u, when an admin received it.
AddPrompt(u, prompted) ==
  IF prompted THEN [verify_prompts EXCEPT ![u] = @ + 1] ELSE verify_prompts

\* ------------------------------------------------- purge_confirmation_callback
\* 'purge_cancel' pressed by user u in CONFIRM_PURGE (lines 1705-1716).
\* edited: query.answer() and edit_message_text (lines 1708, 1712) did not raise.
PurgeCancelButton(u, edited) ==
  /\ purge_conv[u] = CONFIRM_PURGE
  /\ IF edited
     THEN /\ user_data' =
               [user_data EXCEPT ![u] =
                  PopKeys(@, {"risks_to_purge_with_conditions",
                              "risks_to_purge_without_conditions"})]
          /\ purge_conv' = [purge_conv EXCEPT ![u] = END]
     ELSE UNCHANGED <<user_data, purge_conv>>
  /\ last' = [Log("purge_cancel", u) EXCEPT
                !.raised = ~edited, !.reply = IF edited THEN "cancelled" ELSE "none",
                !.msgs = IF edited THEN <<Msg("cancelled")>> ELSE <<>>]
  /\ UNCHANGED <<risk_data, conditions_data, disabled_commands, store_vars, timer_vars, finalize_runs, beg_conv, seerisk_buttons, verify_prompts>>

\* Fault variant of ImmediateBatch: nothing is finalized at once, the whole
\* request waits for the verification phase.
ImmediateBatchDeferred(ud) == <<>>

\* Fault variant of ImmediateBatch: the records that need verification are
\* finalized at once with the others.
ImmediateBatchAll(ud) ==
  ud.risks_to_purge_without_conditions \o ud.risks_to_purge_with_conditions

\* Lines 1721-1725: the records the confirm step finalizes at once.
ImmediateBatch(ud) == ud.risks_to_purge_without_conditions

\* The points where the confirm branch can be left by an exception: "start"
\* (lines 1708, 1718), "summary1" (line 1731), "announce" (line 1736), inside
\* send_random_condition, "done_msg" (line 1739).
ConfirmFails ==
  {"none", "start", "summary1", "announce", "src_first", "src_summary", "done_msg"}

\* 'purge_confirm' pressed by user u in CONFIRM_PURGE (lines 1718-1743).
ConfirmRun(u, df1, ef1, choice, df2, ef2, fail, notified) ==
  LET ud == user_data[u]
      with == ud.risks_to_purge_with_conditions
      without == ImmediateBatch(ud)
      fin1 == Finalize(risk_data, without, df1, ef1)
      lg0 == [Log("purge_confirm", u) EXCEPT !.raised = fail # "none"]
      m1 == <<Msg("processing")>> \o
            (IF without # <<>> /\ fail # "summary1" THEN <<CountsMsg(fin1)>> ELSE <<>>)
      lg1 == IF without # <<>>
             THEN [LogFinalize(lg0, without, fin1, ud.req_disabled) EXCEPT
                     !.reply = IF fail = "summary1" THEN "none" ELSE "summary",
                     !.msgs = m1]
             ELSE [lg0 EXCEPT !.msgs = m1]
      ud1 == [ud EXCEPT !.keys = @ \cup {"risks_to_purge"},
                        !.risks_to_purge = with,
                        !.rtp_disabled = ud.req_disabled]
      srcfail == IF fail \in {"src_first", "src_summary"} THEN fail ELSE "none"
      src == SendRandomCondition(ud1, fin1.rd, conditions_data, choice, df2, ef2,
                                 srcfail, notified)
      \* the admins send_random_condition, when it is reached, sends prompts to
      sent_to == IF fail \in {"none", "src_first", "src_summary"} /\ with # <<>>
                 THEN src.admin_ids ELSE {}
  IN /\ purge_conv[u] = CONFIRM_PURGE
     /\ fail = "summary1" => without # <<>>
     /\ fail \in {"announce", "src_first", "src_summary"} => with # <<>>
     /\ fail = "done_msg" => with = <<>>
     /\ fail = "start" => (df1 = {} /\ ef1 = {})
     /\ (fail \in {"start", "summary1", "done_msg", "announce"} \/ with = <<>>)
          => (choice = None /\ df2 = {} /\ ef2 = {} /\ ~notified)
     /\ IF fail = "start"
        THEN /\ last' = lg0
             /\ UNCHANGED <<risk_data, user_data, purge_conv, seerisk_buttons,
                            verify_prompts>>
        ELSE IF fail = "summary1" \/ fail = "done_msg"
        THEN /\ risk_data' = fin1.rd
             /\ seerisk_buttons' = AfterFinalizeButtons(fin1)
             /\ last' = lg1
             /\ UNCHANGED <<user_data, purge_conv, verify_prompts>>
        ELSE IF with = <<>>
        THEN /\ risk_data' = fin1.rd
             /\ seerisk_buttons' = AfterFinalizeButtons(fin1)
             /\ user_data' =
                  [user_data EXCEPT ![u] =
                     PopKeys(@, {"risks_to_purge_with_conditions",
                                 "risks_to_purge_without_conditions"})]
             /\ purge_conv' = [purge_conv EXCEPT ![u] = END]
             /\ last' = [lg1 EXCEPT !.msgs = Append(@, Msg("done"))]
             /\ UNCHANGED verify_prompts
        ELSE IF fail = "announce"
        THEN /\ risk_data' = fin1.rd
             /\ seerisk_buttons' = AfterFinalizeButtons(fin1)
             /\ user_data' = [user_data EXCEPT ![u] = ud1]
             /\ last' = lg1
             /\ UNCHANGED <<purge_conv, verify_prompts>>
        ELSE /\ choice \in SrcChoices(ud1, fin1.rd, conditions_data)
             /\ SrcFailOk(ud1, fin1.rd, conditions_data, srcfail)
             /\ src.fins = <<>> => (df2 = {} /\ ef2 = {})
             /\ notified => (src.prompted /\ verify_prompts[u] < MaxPrompts)
             /\ risk_data' = src.rd
             /\ seerisk_buttons' =
                  [taunt |-> seerisk_buttons.taunt \ (fin1.unbuttoned \cup src.unbuttoned),
                   post |-> seerisk_buttons.post \ (fin1.unbuttoned \cup src.unbuttoned)]
             /\ user_data' = [user_data EXCEPT ![u] = src.ud]
             /\ purge_conv' = IF src.raised THEN purge_conv
                              ELSE [purge_conv EXCEPT ![u] = src.ret]
             /\ verify_prompts' = AddPrompt(u, src.prompted)
             /\ last' = [lg1 EXCEPT !.fins = @ \o src.fins,
                                    !.saved = @ \/ src.saved,
                                    !.msgs = Append(@, Msg("announce")) \o src.msgs,
                                    !.reply = IF src.reply # "none" THEN src.reply ELSE @,
                                    !.admin_ids = src.admin_ids]
     /\ \E got \in SUBSET (sent_to \ {OWNER_ID}) :
          admin_prompts' = admin_prompts \cup Copies(u, got, choice, with)
     /\ JobsFollow({}, {})
     /\ UNCHANGED <<conditions_data, disabled_commands, files, store_proc, hashtag_data,
                    admin_data, timer_settings, finalize_runs, beg_conv>>

PurgeConfirmButton(u, fail) ==
  /\ purge_conv[u] = CONFIRM_PURGE
  /\ fail \in ConfirmFails
  /\ \E df1 \in DeleteFailures(risk_data, user_data[u].risks_to_purge_without_conditions),
        ef1 \in EditFailures(risk_data, user_data[u].risks_to_purge_without_conditions),
        choice \in Range(Get(conditions_data, "g1", <<>>))
                     \cup Range(Get(conditions_data, "g2", <<>>)) \cup {None},
        df2 \in DeleteFailures(risk_data, user_data[u].risks_to_purge_with_conditions),
        ef2 \in EditFailures(risk_data, user_data[u].risks_to_purge_with_conditions),
        notified \in {TRUE, FALSE} :
       ConfirmRun(u, df1, ef1, choice, df2, ef2, fail, notified)

\* ------------------------------------------------- purge_verification_callback
VerifyFails == {"none", "start", "deny_msg", "summary", "src_first", "src_summary"}

\* Fault variant of HasPurgeRequest: the test of line 1763 left out.
HasPurgeRequestAlways(ud) == TRUE

\* Line 1763: the requester's session holds a purge request.
HasPurgeRequest(ud) == "risks_to_purge" \in ud.keys

\* An approve/deny button of a prompt for requester u is pressed (lines
\* 1749-1794).  "start": query.answer() or the first edit_message_text raised;
\* "deny_msg": line 1790, 1791 or 1793 raised; "summary": line 1781 raised.
VerificationPress(u, pressed, decision, choice, df, ef, fail, notified) ==
  LET ud == user_data[u]
      live == HasPurgeRequest(ud)
      fin == Finalize(risk_data, ud.risks_to_purge, df, ef)
      srcfail == IF fail \in {"src_first", "src_summary"} THEN fail ELSE "none"
      src == SendRandomCondition(ud, risk_data, conditions_data, choice, df, ef,
                                 srcfail, notified)
      lg == [Log("purge_verify_" \o decision, u) EXCEPT !.raised = fail # "none"]
      \* the keyboard of the pressed prompt is gone with the first edit
      owners == pressed.admin = OWNER_ID
      used == IF owners THEN [verify_prompts EXCEPT ![u] = @ - 1] ELSE verify_prompts
      kept == IF fail = "start" THEN admin_prompts ELSE admin_prompts \ {pressed}
      \* the admins send_random_condition, when a Deny reaches it, sends prompts to
      sent_to == IF fail \in SrcFails /\ live /\ decision # "approve"
                 THEN src.admin_ids ELSE {}
  IN /\ pressed.user = u
     /\ IF owners THEN pressed = OwnerPrompt(u) /\ verify_prompts[u] > 0
                  ELSE pressed \in admin_prompts
     /\ IF fail = "start"
        THEN /\ df = {} /\ ef = {} /\ choice = None /\ ~notified
             /\ last' = lg
             /\ UNCHANGED <<risk_data, user_data, seerisk_buttons, verify_prompts>>
        ELSE IF ~live
        THEN /\ fail = "none" /\ df = {} /\ ef = {} /\ choice = None /\ ~notified
             /\ verify_prompts' = used
             /\ last' = [lg EXCEPT !.reply = "invalid"]
             /\ UNCHANGED <<risk_data, user_data, seerisk_buttons>>
        ELSE IF decision = "approve"
        THEN /\ fail \in {"none", "summary"} /\ choice = None /\ ~notified
             /\ risk_data' = fin.rd
             /\ seerisk_buttons' = AfterFinalizeButtons(fin)
             /\ user_data' = IF fail = "none"
                             THEN [user_data EXCEPT ![u] = PopKeys(@, SessionKeys)]
                             ELSE user_data
             /\ verify_prompts' = used
             /\ last' = [LogFinalize(lg, ud.risks_to_purge, fin, ud.rtp_disabled) EXCEPT
                           !.reply = IF fail = "none" THEN "summary" ELSE "none",
                           !.msgs = IF fail = "none" THEN <<CountsMsg(fin)>> ELSE <<>>]
        ELSE IF fail = "deny_msg"
        THEN /\ df = {} /\ ef = {} /\ choice = None /\ ~notified
             /\ verify_prompts' = used
             \* the notice of line 1791 is out when get_chat (line 1793) raises
             /\ \E m \in {<<>>, <<Msg("denied")>>} : last' = [lg EXCEPT !.msgs = m]
             /\ UNCHANGED <<risk_data, user_data, seerisk_buttons>>
        ELSE /\ fail \in SrcFails
             /\ choice \in SrcChoices(ud, risk_data, conditions_data)
             /\ SrcFailOk(ud, risk_data, conditions_data, srcfail)
             /\ src.fins = <<>> => (df = {} /\ ef = {})
             /\ notified => (src.prompted /\ used[u] < MaxPrompts)
             /\ risk_data' = src.rd
             /\ seerisk_buttons' =
                  [taunt |-> seerisk_buttons.taunt \ src.unbuttoned,
                   post |-> seerisk_buttons.post \ src.unbuttoned]
             /\ user_data' = [user_data EXCEPT ![u] = src.ud]
             /\ verify_prompts' =
                  [used EXCEPT ![u] = @ + (IF src.prompted /\ notified THEN 1 ELSE 0)]
             /\ last' = [lg EXCEPT !.fins = src.fins, !.saved = src.saved,
                                   !.reply = src.reply,
                                   !.msgs = <<Msg("denied")>> \o src.msgs,
                                   !.admin_ids = src.admin_ids]
     /\ \E got \in SUBSET (sent_to \ {OWNER_ID}) :
          admin_prompts' = kept \cup Copies(u, got, choice, ud.risks_to_purge)
     /\ JobsFollow({}, {})
     /\ UNCHANGED <<conditions_data, disabled_commands, files, store_proc, hashtag_data,
                    admin_data, timer_settings, finalize_runs, purge_conv, beg_conv>>

\* The prompt pressed is one in the owner's chat.
VerificationRun(u, decision, choice, df, ef, fail, notified) ==
  VerificationPress(u, OwnerPrompt(u), decision, choice, df, ef, fail, notified)

PurgeVerification(u, decision, fail) ==
  /\ verify_prompts[u] > 0
  /\ fail \in VerifyFails
  /\ \E choice \in Range(Get(conditions_data, "g1", <<>>))
                     \cup Range(Get(conditions_data, "g2", <<>>)) \cup {None},
        df \in DeleteFailures(risk_data, user_data[u].risks_to_purge),
        ef \in EditFailures(risk_data, user_data[u].risks_to_purge),
        notified \in {TRUE, FALSE} :
       VerificationRun(u, decision, choice, df, ef, fail, notified)

\* ---------------------------------------------------------------- /cancel
\* cancel_command (lines 1172-1191) as the fallback of the first open
\* conversation of user u, in the order the handlers were added (lines
\* 2797-2838): the risk conversation, then the purge conversation.  The
\* purge keys of user_data are not touched.  sent: line 1187 did not raise.
CancelCommand(u, sent) ==
  /\ beg_conv' = IF sent /\ beg_conv[u] # None
                 THEN [beg_conv EXCEPT ![u] = None] ELSE beg_conv
  /\ purge_conv' = IF sent /\ beg_conv[u] = None
                   THEN [purge_conv EXCEPT ![u] = END] ELSE purge_conv
  /\ last' = NoLog
  /\ UNCHANGED <<risk_data, conditions_data, disabled_commands, store_vars, timer_vars, finalize_runs, user_data, seerisk_buttons, verify_prompts>>

\* ------------------------------------------------------- /disable, /enable
\* Fault variant of IsDynamic: the static commands are looked at first.
IsDynamicNever(tag) == FALSE

\* Line 2085: 'if tag in data', before COMMAND_MAP is looked at.
IsDynamic(tag) == tag \in hashtag_data

\* hashtag_message_handler (lines 798-840): a message with '#tag' stores
\* the tag, whatever the tag is.
HashtagMessage(tag) ==
  /\ hashtag_data' = hashtag_data \cup {tag}
  /\ UNCHANGED <<bot_vars, files, store_proc, admin_data, admin_prompts, timer_vars, finalize_runs>>

\* disable_command with tag c, a static command, by an admin of group g
\* (lines 2082-2104).  A tag that is also a dynamic command is deleted from
\* hashtag_data and the handler returns (lines 2085-2090).
DisableCommand(g, c) ==
  /\ c \in COMMAND_MAP
  /\ hashtag_data' = IF IsDynamic(c) THEN hashtag_data \ {c} ELSE hashtag_data
  /\ disabled_commands' =
       IF IsDynamic(c) \/ c \in Get(disabled_commands, g, {}) THEN disabled_commands
       ELSE Put(disabled_commands, g, Get(disabled_commands, g, {}) \cup {c})
  /\ last' = NoLog
  /\ UNCHANGED <<risk_data, conditions_data, files, store_proc, admin_data, admin_prompts, timer_vars, finalize_runs, user_data, purge_conv, beg_conv, seerisk_buttons, verify_prompts>>

\* enable_command by an admin of group g (lines 2121-2135).
EnableCommand(g, c) ==
  /\ c \in COMMAND_MAP
  /\ disabled_commands' =
       IF g \in DOMAIN disabled_commands /\ c \in disabled_commands[g]
       THEN IF disabled_commands[g] \ {c} = {}
            THEN Del(disabled_commands, g)
            ELSE Put(disabled_commands, g, disabled_commands[g] \ {c})
       ELSE disabled_commands
  /\ last' = NoLog
  /\ UNCHANGED <<risk_data, conditions_data, store_vars, timer_vars, finalize_runs, user_data, purge_conv, beg_conv, seerisk_buttons, verify_prompts>>

\* ------------------------------------------- /addcondition, /removecondition
RECURSIVE SumLen(_, _)
SumLen(d, keys) ==
  IF keys = {} THEN 0
  ELSE LET k == CHOOSE x \in keys : TRUE IN Len(d[k]) + SumLen(d, keys \ {k})

\* addcondition_command in group g (lines 469-488) while fewer than max
\* conditions are stored; id: the value of uuid4().hex[:5] (line 480), which
\* is not compared with the ids the group already has.
AddConditionUpTo(g, id, max) ==
  /\ SumLen(conditions_data, DOMAIN conditions_data) < max
  /\ conditions_data' = Put(conditions_data, g, Append(Get(conditions_data, g, <<>>), id))
  /\ last' = [Log("addcondition", None) EXCEPT !.reply = "added", !.saved = TRUE]
  /\ UNCHANGED <<risk_data, disabled_commands, store_vars, timer_vars, finalize_runs, user_data, purge_conv, beg_conv, seerisk_buttons, verify_prompts>>

AddCondition(g, id) == AddConditionUpTo(g, id, MaxConditions)

\* Line 553: the conditions left when those with the given id are filtered out.
RECURSIVE WithoutId(_, _)
WithoutId(conds, id) ==
  IF conds = <<>> THEN <<>>
  ELSE (IF Head(conds) # id THEN <<Head(conds)>> ELSE <<>>) \o WithoutId(Tail(conds), id)

\* Fault variant of StoreLeft: the group keeps its key when its last
\* condition is removed (the del of line 561 left out).
StoreLeftKeepsKey(cd, g, left) == Put(cd, g, left)

\* Lines 556-561: the store after a removal that left the list left.
StoreLeft(cd, g, left) ==
  IF left # <<>> THEN Put(cd, g, left) ELSE Del(cd, g)

\* removecondition_command in group g (lines 535-566): the three 'Could not
\* find' replies (lines 541, 547, 566) come without a save.
RemoveCondition(g, id) ==
  LET group_conditions == Get(conditions_data, g, <<>>)
      left == WithoutId(group_conditions, id)
      removed == Len(left) < Len(group_conditions)
  IN /\ conditions_data' =
          IF removed THEN StoreLeft(conditions_data, g, left) ELSE conditions_data
     /\ last' = [Log("removecondition", None) EXCEPT
                   !.reply = IF removed THEN "removed" ELSE "not_found",
                   !.saved = removed]
     /\ UNCHANGED <<risk_data, disabled_commands, store_vars, timer_vars, finalize_runs, user_data, purge_conv, beg_conv, seerisk_buttons, verify_prompts>>

\* ------------------------------------------------- command_handler_wrapper
\* ChatMember.status of the invoking member, as get_chat_member returns it.
MemberStatuses == {"creator", "administrator", "member", "restricted"}

\* Fault variant of IsChatAdmin: the test of line 121 lets everyone through.
IsChatAdminAnyone(status) == TRUE

\* Line 121: the member is an administrator or the owner of the group.
IsChatAdmin(status) == status \in {"administrator", "creator"}

\* The unguarded gateway calls of the wrapper: "lookup" is get_chat_member
\* (line 120), "warn" the send_message of the warning (line 122).
WrapperFails == {"none", "lookup", "warn"}

\* The wrapper of an admin_only command named command_name, invoked in group
\* g by a member of the given status (lines 96-143); body is the decorated
\* function.  A command the group has disabled is dropped without a word
\* (lines 110-117) before the member is looked at.  The finally clause only
\* deletes the command message.
CommandWrapper(g, command_name, status, fail, body) ==
  IF command_name \in Get(disabled_commands, g, {})
  THEN /\ fail = "none"
       /\ last' = Log(command_name, None)
       /\ UNCHANGED <<risk_data, conditions_data, disabled_commands, store_vars, timer_vars, finalize_runs, user_data,
                      purge_conv, beg_conv, seerisk_buttons, verify_prompts>>
  ELSE IF fail = "lookup"
  THEN /\ last' = [Log(command_name, None) EXCEPT !.raised = TRUE]
       /\ UNCHANGED <<risk_data, conditions_data, disabled_commands, store_vars, timer_vars, finalize_runs, user_data,
                      purge_conv, beg_conv, seerisk_buttons, verify_prompts>>
  ELSE IF ~IsChatAdmin(status)
  THEN /\ last' = [Log(command_name, None) EXCEPT
                     !.raised = fail = "warn",
                     !.reply = IF fail = "warn" THEN "none" ELSE "warning"]
       /\ UNCHANGED <<risk_data, conditions_data, disabled_commands, store_vars, timer_vars, finalize_runs, user_data,
                      purge_conv, beg_conv, seerisk_buttons, verify_prompts>>
  ELSE /\ fail = "none"
       /\ body

\* The tags /disable and /enable are given, and the condition ids drawn and
\* named, in the group commands the model follows.
DisableTags == {"addcondition", "removecondition"}
GroupConditionIds == {1, 2}

\* One of the admin-only commands, sent in group g by a member of the given
\* status.
GroupCommand(g, command_name, status, fail) ==
  /\ command_name \in AdminCommands
  /\ CommandWrapper(g, command_name, status, fail,
        CASE command_name = "disable" -> \E c \in DisableTags : DisableCommand(g, c)
          [] command_name = "enable" -> \E c \in DisableTags : EnableCommand(g, c)
          [] command_name = "addcondition" ->
               \E id \in GroupConditionIds : AddConditionUpTo(g, id, MaxGroupConditions)
          [] command_name = "removecondition" ->
               \E id \in GroupConditionIds : RemoveCondition(g, id))

\* ------------------------------------------- load_risk_data, save_risk_data
\* The mappings the store holds over time: records are appended to it.
AllEntries == <<"r1", "r2">>
Mappings == {SubSeq(AllEntries, 1, n) : n \in 0..Len(AllEntries)}

\* json.dump(data, f): the text of a mapping, in the chunks it is written in.
Dump(data) == <<"{">> \o data \o <<"}">>

\* The text decodes as UTF-8: it holds no byte that is no UTF-8.
Decodable(text) == "0xff" \notin Range(text)

\* json.load(f) accepts the text.
IsJson(text) ==
  /\ Len(text) >= 2
  /\ text[1] = "{" /\ text[Len(text)] = "}"
  /\ \A i \in 2..(Len(text) - 1) : text[i] \in Range(AllEntries)

\* json.load(f) on a text it accepts.
Parse(text) == SubSeq(text, 2, Len(text) - 1)

\* The file at path p alone: what is there, or nothing.
FileAt(fs, p) == [q \in DOMAIN fs \cap {p} |-> fs[q]]

\* Fault variant of WritePath: the mapping is written over the store file
\* itself, as save_conditions_data does (lines 197-199).
WritePathInPlace == "risk"

\* Line 182: save_risk_data writes to the temporary path.
WritePath == "tmp"

\* save_risk_data(data), line 184: open(temp_file_path, 'w') creates or
\* truncates the file; opened: it did not raise (OSError is caught at line
\* 188 and the save given up).
SaveOpen(data, opened) ==
  /\ store_proc.pc = "idle"
  /\ data \in Mappings
  /\ IF opened
     THEN /\ files' = Put(files, WritePath, <<>>)
          /\ store_proc' = [store_proc EXCEPT !.pc = "write", !.data = data,
                                              !.text = Dump(data), !.crashed = FALSE,
                                              !.before = FileAt(files, "risk")]
     ELSE UNCHANGED <<files, store_proc>>
  /\ UNCHANGED <<bot_vars, hashtag_data, admin_data, admin_prompts, timer_vars, finalize_runs>>

\* Line 185: json.dump writes the next chunk; written: the write did not
\* raise (disk full: OSError, caught at line 188, the partial file stays).
\* After the last chunk the file is closed.
SaveWrite(written) ==
  /\ store_proc.pc = "write"
  /\ IF written
     THEN /\ files' = Put(files, WritePath, Append(files[WritePath], Head(store_proc.text)))
          /\ store_proc' = [store_proc EXCEPT
                              !.text = Tail(@),
                              !.pc = IF Tail(store_proc.text) = <<>> THEN "replace" ELSE "write"]
     ELSE /\ store_proc' = [store_proc EXCEPT !.pc = "idle", !.text = <<>>]
          /\ UNCHANGED files
  /\ UNCHANGED <<bot_vars, hashtag_data, admin_data, admin_prompts, timer_vars, finalize_runs>>

\* Line 187: os.replace(temp_file_path, RISK_DATA_FILE), one atomic rename;
\* replaced: it did not raise.
SaveReplace(replaced) ==
  /\ store_proc.pc = "replace"
  /\ files' = IF replaced /\ WritePath # "risk"
              THEN Del(Put(files, "risk", files[WritePath]), WritePath)
              ELSE files
  /\ store_proc' = [store_proc EXCEPT !.pc = "idle"]
  /\ UNCHANGED <<bot_vars, hashtag_data, admin_data, admin_prompts, timer_vars, finalize_runs>>

\* The process dies inside save_risk_data and is started again: what it
\* held in memory is gone, the files are as the last completed call left
\* them.
Crash ==
  /\ store_proc.pc # "idle"
  /\ store_proc' = [IdleProc EXCEPT !.before = store_proc.before,
                                    !.data = store_proc.data, !.crashed = TRUE]
  /\ UNCHANGED <<files, bot_vars, hashtag_data, admin_data, admin_prompts, timer_vars, finalize_runs>>

\* load_risk_data (lines 164-178).  renamed: os.rename of line 173 did not
\* raise (its OSError is caught at line 175 and only logged).  Only
\* json.JSONDecodeError is caught: a text that is no UTF-8 leaves the
\* function with UnicodeDecodeError.
LoadRisk(renamed) ==
  LET exists == "risk" \in DOMAIN files
      text == files["risk"]
      done(status, value) ==
        store_proc' = [store_proc EXCEPT !.load_status = status, !.load_value = value,
                                         !.before = FileAt(files, "risk")]
  IN /\ store_proc.pc = "idle"
     /\ IF ~exists
        THEN /\ renamed /\ done("returned", <<>>) /\ UNCHANGED files
        ELSE IF ~Decodable(text)
        THEN /\ renamed /\ done("raised", <<>>) /\ UNCHANGED files
        ELSE IF IsJson(text)
        THEN /\ renamed /\ done("returned", Parse(text)) /\ UNCHANGED files
        ELSE /\ done("returned", <<>>)
             /\ files' = IF renamed THEN Put(Del(files, "risk"), "corrupted", text)
                         ELSE files
     /\ UNCHANGED <<bot_vars, hashtag_data, admin_data, admin_prompts, timer_vars, finalize_runs>>

\* ------------------------------------------------- /timer and deletion jobs
TimerMinutes == {0, 1}

\* timer_command with an argument, by an administrator of group g (lines
\* 2161-2188): 0 removes the group's timer, a positive number sets it.
TimerCommand(g, minutes) ==
  /\ minutes \in TimerMinutes
  /\ timer_settings' = IF minutes = 0 THEN timer_settings \ {g}
                       ELSE timer_settings \cup {g}
  /\ last' = NoLog
  /\ UNCHANGED <<risk_data, conditions_data, disabled_commands, store_vars, deletion_jobs,
                 expired, untracked, finalize_runs, user_data, purge_conv, beg_conv,
                 seerisk_buttons, verify_prompts>>

\* delete_message_callback, the job schedule_message_deletion gave the
\* posted message of record risk_id (lines 2600-2626).  deleted: the message
\* was not exempted by /notimer and delete_message succeeded.  The job reads
\* and writes no_delete_ids only: the Risk Store is not loaded.
DeleteMessageCallback(risk_id, deleted) ==
  /\ risk_id \in deletion_jobs
  /\ deletion_jobs' = deletion_jobs \ {risk_id}
  /\ expired' = IF deleted THEN expired \cup {risk_id} ELSE expired
  /\ UNCHANGED <<bot_vars, store_vars, timer_settings, untracked, finalize_runs>>

\* periodic_random_risk_check for group g whose roll passed (lines
\* 2671-2726): risk_id is the random.choice among the group's records that
\* are not purged (line 2690); sent: the media was sent.  The message is
\* given a deletion job when the group has a timer (line 2721) and is
\* written to no record: the store is only loaded.
PeriodicRandomRiskCheck(g, risk_id, sent) ==
  /\ risk_id \in 1..Len(risk_data)
  /\ risk_data[risk_id].group_id = g
  /\ ~risk_data[risk_id].purged
  /\ untracked' = IF sent /\ g \notin timer_settings THEN untracked \cup {risk_id}
                  ELSE untracked
  /\ UNCHANGED <<bot_vars, store_vars, timer_settings, deletion_jobs, expired, finalize_runs>>

\* --------------------------------------- _delete_and_mark_risks step by step
\* Fault variant of concurrent_updates: the Application is built with
\* concurrent_updates(True), so a handler is started while another one waits
\* for the gateway.
concurrent_updates_enabled == TRUE

\* Line 2795: Application.builder().token(TOKEN).build() leaves
\* concurrent_updates at its default; the handlers are all blocking.  The
\* dispatcher awaits one update's handler before it takes the next update.
concurrent_updates == FALSE

\* The dispatcher may run (a step of) a handler for user u: always when
\* updates are concurrent, otherwise only while no other handler is between
\* its load and its save.  FILE_LOCKS (lines 25-35) is never acquired, so no
\* lock is part of the condition.
Dispatched(u) ==
  concurrent_updates \/ \A v \in Users \ {u} : finalize_runs[v].pc \in {"idle", "done"}

\* Lines 1455-1460: a Finalize on the records of user u begins: it loads
\* the whole store.
FinalizeLoad(u) ==
  LET batch == AdminCandidates(risk_data, disabled_commands, u)
  IN /\ Dispatched(u)
     /\ finalize_runs[u].pc = "idle"
     /\ batch # <<>>
     /\ finalize_runs' = [finalize_runs EXCEPT
                            ![u] = [pc |-> "loaded", batch |-> batch, local |-> risk_data]]
     /\ UNCHANGED <<bot_vars, store_vars, timer_vars>>

\* Lines 1462-1497: the loop over the batch, which awaits the gateway for
\* every posted record and marks the records in the loaded copy.
FinalizeAwait(u) ==
  LET run == finalize_runs[u]
  IN /\ Dispatched(u)
     /\ run.pc = "loaded"
     /\ \E df \in DeleteFailures(run.local, run.batch) :
          finalize_runs' = [finalize_runs EXCEPT
                              ![u] = [run EXCEPT
                                        !.pc = "marked",
                                        !.local = Finalize(run.local, run.batch, df, {}).rd]]
     /\ UNCHANGED <<bot_vars, store_vars, timer_vars>>

\* Line 1499: save_risk_data(risk_data) writes the whole loaded copy back.
FinalizeSave(u) ==
  /\ Dispatched(u)
  /\ finalize_runs[u].pc = "marked"
  /\ risk_data' = finalize_runs[u].local
  /\ finalize_runs' = [finalize_runs EXCEPT ![u].pc = "done"]
  /\ JobsFollow({}, {})
  /\ UNCHANGED <<conditions_data, disabled_commands, user_data, purge_conv, beg_conv,
                 seerisk_buttons, verify_prompts, last, store_vars, timer_settings>>

\* -------------------------------------------------------------------- Next
Bool == {TRUE, FALSE}
Ids == 1..Len(risk_data)

Next ==
  \/ \E u \in Users, g \in Groups, posted \in Bool, completed \in Bool :
       ReceiveMediaUnlucky(u, g, posted, completed)
  \/ \E u \in Users, g \in Groups, sent \in Bool : ReceiveMediaLucky(u, g, sent)
  \/ \E u \in Users : BegNo(u)
  \/ \E u \in Users, posted \in Bool, ended \in Bool : BegYes(u, posted, ended)
  \/ \E t \in Users : Seerisk(t)
  \/ \E r \in Ids, posted \in Bool, removed \in Bool : PostRisk(r, posted, removed)
  \/ \E r \in Ids, posted \in Bool, removed \in Bool : PostRiskWithTaunt(r, posted, removed)
  \/ \E t \in Users, replied \in Bool : PurgeAdmin(OWNER_ID, t, replied)
  \/ \E u \in Users, entry \in Bool, replied \in Bool : PurgeSelf(u, entry, replied)
  \/ \E u \in Users, edited \in Bool : PurgeCancelButton(u, edited)
  \/ \E u \in Users, fail \in ConfirmFails : PurgeConfirmButton(u, fail)
  \/ \E u \in Users, decision \in {"approve", "deny"}, fail \in VerifyFails :
       PurgeVerification(u, decision, fail)
  \/ \E u \in Users, sent \in Bool : CancelCommand(u, sent)
  \/ \E g \in Groups, c \in Commands : DisableCommand(g, c)
  \/ \E g \in Groups, c \in Commands : EnableCommand(g, c)
  \/ \E g \in Groups, id \in ConditionIds : AddCondition(g, id)
  \/ \E g \in Groups, id \in ConditionIds : RemoveCondition(g, id)
  \/ \E g \in Groups, c \in AdminCommands, status \in MemberStatuses, fail \in WrapperFails :
       GroupCommand(g, c, status, fail)
  \/ \E g \in Groups, minutes \in TimerMinutes : TimerCommand(g, minutes)
  \/ \E i \in 1..MaxRisks, deleted \in Bool : DeleteMessageCallback(i, deleted)

Spec == Init /\ [][Next]_vars

\* ------------------------------------------------------ the risk store alone
\* The handlers that write risk_data.json, for one risk-taking user in one
\* group, the owner acting as admin.  conditions.json is as the bot finds it
\* when it starts: empty, or with one condition registered for the group.
\* The gateway fails in the risk and /seerisk handlers and in Finalize
\* (message deletes, keyboard edits); the replies of the purge handlers are
\* delivered.
RiskUsers == {1}
RiskGroups == {"g1"}

InitRisk ==
  /\ risk_data = <<>>
  /\ conditions_data \in {<<>>, [g \in RiskGroups |-> <<1>>]}
  /\ disabled_commands = <<>>
  /\ user_data = [u \in Users |-> NoSession]
  /\ purge_conv = [u \in Users |-> END]
  /\ beg_conv = [u \in Users |-> None]
  /\ seerisk_buttons = [taunt |-> {}, post |-> {}]
  /\ verify_prompts = [u \in Users |-> 0]
  /\ last = NoLog
  /\ InitRest

NextRisk ==
  \/ \E u \in RiskUsers, g \in RiskGroups, posted \in Bool, completed \in Bool :
       ReceiveMediaUnlucky(u, g, posted, completed)
  \/ \E u \in RiskUsers, g \in RiskGroups, sent \in Bool : ReceiveMediaLucky(u, g, sent)
  \/ \E u \in RiskUsers, posted \in Bool, ended \in Bool : BegYes(u, posted, ended)
  \/ \E t \in RiskUsers : Seerisk(t)
  \/ \E r \in Ids, posted \in Bool, removed \in Bool : PostRisk(r, posted, removed)
  \/ \E r \in Ids, posted \in Bool, removed \in Bool : PostRiskWithTaunt(r, posted, removed)
  \/ \E t \in RiskUsers : PurgeAdmin(OWNER_ID, t, TRUE)
  \/ \E u \in RiskUsers : PurgeSelf(u, TRUE, TRUE)
  \/ \E u \in RiskUsers : PurgeConfirmButton(u, "none")
  \/ \E u \in RiskUsers, decision \in {"approve", "deny"} :
       PurgeVerification(u, decision, "none")

SpecRisk == InitRisk /\ [][NextRisk]_vars

\* ------------------------------------------------------- the purge workflow
\* The purge handlers with the configuration commands that decide their
\* candidates: user 1 requests purges, users 1 and 2 take risks (posted by
\* the unlucky draw or not at all) and are targets of the admin purge.
\* Conditions are registered for group g1 only.  The replies of the purge
\* conversation may fail to be sent; the admin's summary is delivered.
Requesters == {1}
ConditionGroups == {"g1"}

NextPurge ==
  \/ \E u \in Users, g \in Groups, posted \in Bool, completed \in Bool :
       ReceiveMediaUnlucky(u, g, posted, completed)
  \/ \E t \in Users : PurgeAdmin(OWNER_ID, t, TRUE)
  \/ \E u \in Requesters, entry \in Bool, replied \in Bool : PurgeSelf(u, entry, replied)
  \/ \E u \in Requesters, edited \in Bool : PurgeCancelButton(u, edited)
  \/ \E u \in Requesters, fail \in ConfirmFails : PurgeConfirmButton(u, fail)
  \/ \E u \in Requesters, decision \in {"approve", "deny"}, fail \in VerifyFails :
       PurgeVerification(u, decision, fail)
  \/ \E g \in Groups, c \in Commands : DisableCommand(g, c)
  \/ \E g \in Groups, c \in Commands : EnableCommand(g, c)
  \/ \E g \in ConditionGroups, id \in ConditionIds : AddCondition(g, id)
  \/ \E g \in ConditionGroups, id \in ConditionIds : RemoveCondition(g, id)

SpecPurge == Init /\ [][NextPurge]_vars

\* ------------------------------------------- one requester's conversation
\* The purge conversation of user 1 with everything the requester can send
\* while it is open: '/purge' with or without an argument, the two buttons
\* of the confirmation prompt and '/cancel'.  The owner purges by argument
\* and presses the approve/deny prompts, where query.answer() may fail.
\* User 1's risks are posted by the unlucky draw; conditions are registered
\* for group g1 only; every other message is delivered.
NextSession ==
  \/ \E u \in Requesters, g \in Groups : ReceiveMediaUnlucky(u, g, TRUE, TRUE)
  \/ \E u \in Requesters, entry \in Bool : PurgeSelf(u, entry, TRUE)
  \/ \E a \in Requesters \cup {OWNER_ID}, t \in Users, entry \in Bool :
       PurgeTargeted(a, t, entry, TRUE)
  \/ \E u \in Requesters : PurgeCancelButton(u, TRUE)
  \/ \E u \in Requesters : PurgeConfirmButton(u, "none")
  \/ \E u \in Requesters, decision \in {"approve", "deny"}, fail \in {"none", "start"} :
       PurgeVerification(u, decision, fail)
  \/ \E u \in Requesters, sent \in Bool : CancelCommand(u, sent)
  \/ \E g \in ConditionGroups, id \in ConditionIds : AddCondition(g, id)
  \/ \E g \in ConditionGroups, id \in ConditionIds : RemoveCondition(g, id)

SpecSession == Init /\ [][NextSession]_vars

\* ------------------------------------------------------------ the deny loop
\* Group g1 has two conditions registered when the bot starts.  User 1
\* posts risks, requests purges and confirms them; the owner approves or
\* denies; '/cancel' reopens the way to a new request.  Every message is
\* delivered.
DenyConditions == <<1, 2>>

InitDeny ==
  /\ risk_data = <<>>
  /\ conditions_data = [g \in ConditionGroups |-> DenyConditions]
  /\ disabled_commands = <<>>
  /\ user_data = [u \in Users |-> NoSession]
  /\ purge_conv = [u \in Users |-> END]
  /\ beg_conv = [u \in Users |-> None]
  /\ seerisk_buttons = [taunt |-> {}, post |-> {}]
  /\ verify_prompts = [u \in Users |-> 0]
  /\ last = NoLog
  /\ InitRest

\* A Deny for requester u at which random.choice draws condition c.
DenySelects(u, c) ==
  \E notified \in Bool : VerificationRun(u, "deny", c, {}, {}, "none", notified)

NextDeny ==
  \/ \E u \in Requesters, g \in Groups : ReceiveMediaUnlucky(u, g, TRUE, TRUE)
  \/ \E u \in Requesters : PurgeSelf(u, TRUE, TRUE)
  \/ \E u \in Requesters : PurgeConfirmButton(u, "none")
  \/ \E u \in Requesters, decision \in {"approve", "deny"} :
       PurgeVerification(u, decision, "none")
  \/ \E u \in Requesters : CancelCommand(u, TRUE)

\* Admins who keep denying and a fair random.choice: a draw that is possible
\* again and again is made again and again.
FairDeny ==
  \A u \in Requesters, c \in Range(DenyConditions) : SF_vars(DenySelects(u, c))

SpecDeny == InitDeny /\ [][NextDeny]_vars /\ FairDeny

\* -------------------------------------------------------- the group commands
\* The admin-only commands /disable, /enable, /addcondition and
\* /removecondition sent in the two groups by members of every status, with
\* the gateway failing in the wrapper.
NextGroup ==
  \/ \E g \in Groups, status \in MemberStatuses, fail \in WrapperFails :
       GroupCommand(g, "disable", status, fail)
  \/ \E g \in Groups, status \in MemberStatuses, fail \in WrapperFails :
       GroupCommand(g, "enable", status, fail)
  \/ \E g \in Groups, status \in MemberStatuses, fail \in WrapperFails :
       GroupCommand(g, "addcondition", status, fail)
  \/ \E g \in Groups, status \in MemberStatuses, fail \in WrapperFails :
       GroupCommand(g, "removecondition", status, fail)

SpecGroup == Init /\ [][NextGroup]_vars

\* ------------------------------------------------------------ the risk store
\* risk_data.json as the process finds it when it starts: absent, written by
\* an earlier save, or damaged from outside (empty, cut short, bytes that
\* are no UTF-8).  The process loads and saves; every step of a save may
\* fail or be the last before a crash.
DamagedTexts == {<<>>, <<"{", "r1">>, <<"0xff">>}

InitStore ==
  /\ risk_data = <<>>
  /\ conditions_data = <<>>
  /\ disabled_commands = <<>>
  /\ user_data = [u \in Users |-> NoSession]
  /\ purge_conv = [u \in Users |-> END]
  /\ beg_conv = [u \in Users |-> None]
  /\ seerisk_buttons = [taunt |-> {}, post |-> {}]
  /\ verify_prompts = [u \in Users |-> 0]
  /\ last = NoLog
  /\ files \in {NoFiles} \cup {Put(NoFiles, "risk", t) :
                                  t \in {Dump(m) : m \in Mappings} \cup DamagedTexts}
  /\ store_proc = IdleProc
  /\ timer_settings = {}
  /\ deletion_jobs = {}
  /\ expired = {}
  /\ untracked = {}
  /\ finalize_runs = [u \in Users |-> NoRun]
  /\ hashtag_data = {}
  /\ admin_data = OwnerOnly
  /\ admin_prompts = {}

NextStore ==
  \/ \E data \in Mappings, opened \in Bool : SaveOpen(data, opened)
  \/ \E written \in Bool : SaveWrite(written)
  \/ \E replaced \in Bool : SaveReplace(replaced)
  \/ Crash
  \/ \E renamed \in Bool : LoadRisk(renamed)

SpecStore == InitStore /\ [][NextStore]_vars

\* ------------------------------------------------ two Finalize runs at once
\* Users 1 and 2 take risks that are posted; then a Finalize runs on the
\* records of each of them, followed through its load, its gateway waits
\* and its save, as the dispatcher schedules them.
NextFinalize ==
  \/ \E u \in Users, g \in Groups :
       /\ \A v \in Users : finalize_runs[v].pc = "idle"
       /\ ReceiveMediaUnlucky(u, g, TRUE, TRUE)
  \/ \E u \in Users : FinalizeLoad(u)
  \/ \E u \in Users : FinalizeAwait(u)
  \/ \E u \in Users : FinalizeSave(u)

SpecFinalize == Init /\ [][NextFinalize]_vars

\* ------------------------------------------------ prompts to group admins
\* Admin 4 administers g1, admin 5 g2, admin 6 is registered with no group
\* left; g1 and g2 have one condition each.  User 1 takes risks, requests
\* purges and confirms; the owner and the group admins press the buttons of
\* the prompts they hold; conditions are removed.
GroupAdmins == [a \in {OWNER_ID, 4, 5, 6} |->
                  IF a = 4 THEN {"g1"} ELSE IF a = 5 THEN {"g2"} ELSE {}]

InitAdmins ==
  /\ risk_data = <<>>
  /\ conditions_data = [g \in Groups |-> IF g = "g1" THEN <<1>> ELSE <<2>>]
  /\ disabled_commands = <<>>
  /\ user_data = [u \in Users |-> NoSession]
  /\ purge_conv = [u \in Users |-> END]
  /\ beg_conv = [u \in Users |-> None]
  /\ seerisk_buttons = [taunt |-> {}, post |-> {}]
  /\ verify_prompts = [u \in Users |-> 0]
  /\ last = NoLog
  /\ files = NoFiles
  /\ store_proc = IdleProc
  /\ timer_settings = {}
  /\ deletion_jobs = {}
  /\ expired = {}
  /\ untracked = {}
  /\ finalize_runs = [u \in Users |-> NoRun]
  /\ hashtag_data = {}
  /\ admin_data = GroupAdmins
  /\ admin_prompts = {}

\* A group admin presses a button of a prompt in their chat.
AdminVerification(pressed, decision) ==
  \E choice \in {1, 2, None},
     df \in DeleteFailures(risk_data, user_data[pressed.user].risks_to_purge),
     notified \in Bool :
    VerificationPress(pressed.user, pressed, decision, choice, df, {}, "none", notified)

NextAdmins ==
  \/ \E u \in Requesters, g \in Groups : ReceiveMediaUnlucky(u, g, TRUE, TRUE)
  \/ \E u \in Requesters : PurgeSelf(u, TRUE, TRUE)
  \/ \E u \in Requesters : PurgeConfirmButton(u, "none")
  \/ \E u \in Requesters, decision \in {"approve", "deny"} :
       PurgeVerification(u, decision, "none")
  \/ \E pressed \in admin_prompts, decision \in {"approve", "deny"} :
       AdminVerification(pressed, decision)
  \/ \E g \in Groups, id \in {1, 2} : RemoveCondition(g, id)

SpecAdmins == InitAdmins /\ [][NextAdmins]_vars

\* The same steps with /cancel, which lets a requester leave the conversation a
\* decided request left open and file the next request, and without changes
\* of the conditions.
NextActors ==
  \/ \E u \in Requesters, g \in Groups : ReceiveMediaUnlucky(u, g, TRUE, TRUE)
  \/ \E u \in Requesters : PurgeSelf(u, TRUE, TRUE)
  \/ \E u \in Requesters : PurgeConfirmButton(u, "none")
  \/ \E u \in Requesters, decision \in {"approve", "deny"} :
       PurgeVerification(u, decision, "none")
  \/ \E pressed \in admin_prompts, decision \in {"approve", "deny"} :
       AdminVerification(pressed, decision)
  \/ \E u \in Requesters : CancelCommand(u, TRUE)

SpecActors == InitAdmins /\ [][NextActors]_vars

\* ------------------------------------------------- /disable and /enable
\* The tags given to /disable and /enable and written as hashtags.
StaticTags == {"purge", "disable", "enable"}
HashTags == {"purge"}

\* '/disable c' sent in group g by a member of the given status.
DisableBy(g, c, status, fail) ==
  CommandWrapper(g, "disable", status, fail, DisableCommand(g, c))

\* '/enable c' sent in group g by a member of the given status.
EnableBy(g, c, status, fail) ==
  CommandWrapper(g, "enable", status, fail, EnableCommand(g, c))

NextDisable ==
  \/ \E g \in Groups, c \in StaticTags, status \in MemberStatuses, fail \in WrapperFails :
       DisableBy(g, c, status, fail)
  \/ \E g \in Groups, c \in StaticTags, status \in MemberStatuses, fail \in WrapperFails :
       EnableBy(g, c, status, fail)
  \/ \E tag \in HashTags : HashtagMessage(tag)

SpecDisable == Init /\ [][NextDisable]_vars

\* ------------------------------------------------- every way of posting
\* Risks are taken, lucky or not; records are posted by begging, from
\* /seerisk and by the periodic job; an admin purges.
NextPost ==
  \/ \E u \in RiskUsers, g \in RiskGroups, posted \in Bool :
       ReceiveMediaUnlucky(u, g, posted, TRUE)
  \/ \E u \in RiskUsers, g \in RiskGroups, sent \in Bool : ReceiveMediaLucky(u, g, sent)
  \/ \E u \in RiskUsers, posted \in Bool : BegYes(u, posted, TRUE)
  \/ \E t \in RiskUsers : Seerisk(t)
  \/ \E r \in Ids, posted \in Bool, removed \in Bool : PostRisk(r, posted, removed)
  \/ \E r \in Ids, posted \in Bool, removed \in Bool : PostRiskWithTaunt(r, posted, removed)
  \/ \E g \in RiskGroups, r \in Ids, sent \in Bool : PeriodicRandomRiskCheck(g, r, sent)
  \/ \E t \in RiskUsers : PurgeAdmin(OWNER_ID, t, TRUE)

SpecPost == InitRisk /\ [][NextPost]_vars

\* --------------------------------------------------- posts under a timer
\* Groups set and clear their deletion timer, users take risks that are
\* posted, the deletion jobs run, and an admin purges.
NextTimer ==
  \/ \E g \in Groups, minutes \in TimerMinutes : TimerCommand(g, minutes)
  \/ \E u \in Users, g \in Groups, posted \in {TRUE, FALSE} :
       ReceiveMediaUnlucky(u, g, posted, TRUE)
  \/ \E i \in 1..MaxRisks, deleted \in {TRUE, FALSE} : DeleteMessageCallback(i, deleted)
  \/ \E t \in Users : PurgeAdmin(OWNER_ID, t, TRUE)

SpecTimer == Init /\ [][NextTimer]_vars

\* ================================================================ properties
\* The records of user u, as risk ids.
RecordsOf(u) == {i \in 1..Len(risk_data) : risk_data[i].user_id = u}

\* C1: in every reachable state of the risk store, every record with
\* purged = TRUE has posted_message_id = None.
C1_PurgedHasNoPostedMessage ==
  \A i \in 1..Len(risk_data) :
    risk_data[i].purged => risk_data[i].posted_message_id = None

\* C2: the purged flag is monotonic: a record stored with purged = TRUE is
\* still stored, and still purged, after every step of every handler.
C2_PurgedIsMonotonic ==
  [][\A i \in 1..Len(risk_data) :
       risk_data[i].purged => (i <= Len(risk_data') /\ risk_data'[i].purged)]_vars

\* A purged record that a later handler wrote (it carries the message id a
\* posting handler stored after the purge) and that is still purged.
C2_WrittenAfterPurge ==
  \E i \in 1..Len(risk_data) :
    risk_data[i].purged /\ risk_data[i].posted_message_id = MessageId

\* C3: Finalize is idempotent per record: for a record of the batch that was
\* already purged, no delete_message call is made (it is neither among the
\* deleted nor among the failed, so it is counted neither as a success nor
\* as a failure), and it is left purged with posted_message_id = None.
C3_FinalizeIsIdempotent ==
  \A k \in 1..Len(last.fins) :
    \A i \in last.fins[k].already :
      /\ i \notin last.fins[k].deleted \cup last.fins[k].failed
      /\ risk_data[i].purged
      /\ risk_data[i].posted_message_id = None

\* C4: partial-failure isolation: whatever deletes succeed or fail, every
\* record of every batch Finalize ran on is purged with its message
\* reference cleared; a failed delete does not stop the loop.
C4_EveryBatchRecordIsPurged ==
  \A k \in 1..Len(last.fins) :
    \A i \in Range(last.fins[k].batch) :
      risk_data[i].purged /\ risk_data[i].posted_message_id = None

\* A Finalize whose delete failed on one record and succeeded on a record
\* that comes later in the batch.
C4_FailureThenSuccess ==
  \E k \in 1..Len(last.fins) :
    \E a, b \in 1..Len(last.fins[k].batch) :
      /\ a < b
      /\ last.fins[k].batch[a] \in last.fins[k].failed
      /\ last.fins[k].batch[b] \in last.fins[k].deleted

\* C5: the counts Finalize returns are the delete outcomes: success_count
\* is the number of records whose message was deleted, failure_count the
\* number of records whose delete raised, both sets are records of the
\* batch, and every record counted as a failure is purged all the same.
C5_CountsAreDeleteOutcomes ==
  \A k \in 1..Len(last.fins) :
    LET f == last.fins[k]
    IN /\ f.success_count = Cardinality(f.deleted)
       /\ f.failure_count = Cardinality(f.failed)
       /\ f.deleted \cap f.failed = {}
       /\ f.deleted \cup f.failed \subseteq Range(f.batch)
       /\ \A i \in f.failed : risk_data[i].purged

\* A Finalize that reported one failure on a batch of which another record
\* had no message to delete.
C5_FailureBesideUnposted ==
  \E k \in 1..Len(last.fins) :
    /\ last.fins[k].failure_count = 1
    /\ Len(last.fins[k].batch) > last.fins[k].success_count + last.fins[k].failure_count

\* 'purge' is in the disabled-commands list of the group of record i.
DisabledFor(i) == "purge" \in Get(disabled_commands, risk_data[i].group_id, {})

\* Record i was purged before the handler that wrote the history ran.
WasPurged(i) ==
  IF \E k \in 1..Len(last.fins) : i \in Range(last.fins[k].batch)
  THEN \E k \in 1..Len(last.fins) : i \in last.fins[k].already
  ELSE risk_data[i].purged

\* C6 as stated: for the self-purge and for the admin purge, the candidates
\* are exactly the target's records that are not purged and whose group has
\* not disabled 'purge'.
C6_CandidatesAsStated ==
  last.op \in {"purge_self", "purge_admin"} =>
    Range(last.cands) = {i \in RecordsOf(last.user) : ~WasPurged(i) /\ ~DisabledFor(i)}

\* C6 as the code has it: the candidates of a self-purge are the requester's
\* records that are posted, not purged and in a group that has not disabled
\* 'purge'; the candidates of an admin purge are all the target's records in
\* a group that has not disabled 'purge', purged or not.
C6_CandidatesAsCoded ==
  /\ last.op = "purge_self" =>
       Range(last.cands) =
         {i \in RecordsOf(last.user) :
            /\ risk_data[i].posted_message_id # None
            /\ ~risk_data[i].purged
            /\ ~DisabledFor(i)}
  /\ last.op = "purge_admin" =>
       Range(last.cands) = {i \in RecordsOf(last.user) : ~DisabledFor(i)}

\* A self-purge request that found candidates and left out an unpurged
\* record of an enabled group because it was never posted.
C6_UnpostedLeftOut ==
  /\ last.op = "purge_self"
  /\ last.cands # <<>>
  /\ \E i \in RecordsOf(last.user) :
       /\ ~risk_data[i].purged /\ ~DisabledFor(i)
       /\ risk_data[i].posted_message_id = None
       /\ i \notin Range(last.cands)

\* C7: a record whose group has disabled 'purge' when the request is made is
\* no candidate of the request (of neither partition, of no admin batch), and
\* no Finalize run for the request has it in its batch.
C7_DisabledGroupNeverPurged ==
  /\ last.op \in {"purge_self", "purge_admin"} =>
       \A i \in Range(last.cands) : ~DisabledFor(i)
  /\ \A k \in 1..Len(last.fins) : last.fins[k].disabled = {}
  /\ \A u \in Users : user_data[u].req_disabled = {} /\ user_data[u].rtp_disabled = {}

\* A confirmed self-purge that ran Finalize while a posted, unpurged record
\* of the requester sits in a group with 'purge' disabled.
C7_DisabledRecordSurvives ==
  /\ last.op = "purge_confirm"
  /\ last.fins # <<>>
  /\ \E i \in RecordsOf(last.user) :
       /\ DisabledFor(i)
       /\ ~risk_data[i].purged
       /\ risk_data[i].posted_message_id # None

\* C8: partition completeness: after a self-purge request stored its two
\* partitions, they are disjoint and without duplicates, their union is the
\* filtered candidate set, and a candidate is in the with-conditions
\* partition exactly when its group has at least one registered condition.
C8_PartitionIsComplete ==
  (last.op = "purge_self" /\ last.cands # <<>>) =>
    LET with == user_data[last.user].risks_to_purge_with_conditions
        without == user_data[last.user].risks_to_purge_without_conditions
        filtered == {i \in RecordsOf(last.user) :
                       /\ risk_data[i].posted_message_id # None
                       /\ ~risk_data[i].purged
                       /\ ~DisabledFor(i)}
    IN /\ Range(with) \cap Range(without) = {}
       /\ Range(with) \cup Range(without) = filtered
       /\ Len(with) + Len(without) = Cardinality(filtered)
       /\ \A i \in filtered :
            i \in Range(with) <=> Get(conditions_data, risk_data[i].group_id, <<>>) # <<>>

\* A self-purge request that filled both partitions.
C8_BothPartitionsFilled ==
  /\ last.op = "purge_self"
  /\ user_data[last.user].risks_to_purge_with_conditions # <<>>
  /\ user_data[last.user].risks_to_purge_without_conditions # <<>>

\* The step was a purge request that ended at once: the 'nothing to purge'
\* reply was sent (or its sending raised), Finalize was not run, the risk
\* store was not written, and the conversation and session are as before.
NothingToPurgeStep ==
  /\ last'.reply = "nothing" \/ last'.raised
  /\ last'.fins = <<>>
  /\ ~last'.saved
  /\ risk_data' = risk_data
  /\ purge_conv' = purge_conv
  /\ user_data' = user_data

\* C9 as stated: a purge request, self or admin-targeted, for a user none of
\* whose records is unpurged ends at once with 'nothing to purge'.
C9_NothingToPurgeAsStated ==
  [][(/\ last'.op \in {"purge_self", "purge_admin"}
      /\ \A i \in RecordsOf(last'.user) : risk_data[i].purged)
       => NothingToPurgeStep]_vars

\* C9 as the code has it: a self-purge request ends at once with 'nothing to
\* purge' when the requester has no posted, unpurged record in a group that
\* has not disabled 'purge'; an admin-targeted request does so when the
\* target has no record at all in such a group.
C9_NothingToPurgeAsCoded ==
  [][/\ (/\ last'.op = "purge_self"
         /\ \A i \in RecordsOf(last'.user) :
              \/ risk_data[i].posted_message_id = None
              \/ risk_data[i].purged
              \/ DisabledFor(i))
          => NothingToPurgeStep
     /\ (/\ last'.op = "purge_admin"
         /\ \A i \in RecordsOf(last'.user) : DisabledFor(i))
          => NothingToPurgeStep]_vars

\* A self-purge request answered 'nothing to purge' although the requester
\* has an unpurged record.
C9_NothingDespiteUnpurged ==
  /\ last.op = "purge_self"
  /\ last.reply = "nothing"
  /\ \E i \in RecordsOf(last.user) : ~risk_data[i].purged

\* C10: cancelling at CONFIRM_PURGE leaves the risk store and the condition
\* store unchanged, runs no Finalize (so no delete), removes both partitions
\* from the session and ends the conversation.
C10_CancelDiscardsRequest ==
  [][last'.op = "purge_cancel" =>
       /\ risk_data' = risk_data
       /\ conditions_data' = conditions_data
       /\ last'.fins = <<>> /\ ~last'.saved
       /\ user_data'[last'.user].keys \cap {"risks_to_purge_with_conditions",
                                            "risks_to_purge_without_conditions"} = {}
       /\ purge_conv'[last'.user] = END]_vars

\* C11: in a confirm step, the Finalize of pending_without_condition is
\* the first thing done and it is persisted: either that batch was finalized
\* first, saved, and all its records are purged in the store, or the step
\* ended before anything else happened (no condition selected, no session
\* written, no admin prompted, the conversation where it was).  With C2 the
\* records stay purged whatever becomes of the verification phase.
C11_ImmediateBatchIsPurgedFirst ==
  [][last'.op = "purge_confirm" =>
       LET u == last'.user
           without == user_data[u].risks_to_purge_without_conditions
       IN without # <<>> =>
            \/ /\ last'.fins # <<>>
               /\ last'.fins[1].batch = without
               /\ last'.saved
               /\ \A i \in Range(without) : risk_data'[i].purged
            \/ /\ risk_data' = risk_data
               /\ user_data' = user_data
               /\ verify_prompts' = verify_prompts
               /\ purge_conv' = purge_conv]_vars

\* A confirm step that finalized a non-empty pending_without_condition and
\* then selected a condition and prompted an admin for the records of
\* pending_with_condition, which are still unpurged.
C11_PurgedThenAwaiting ==
  /\ last.op = "purge_confirm"
  /\ Len(last.fins) = 1
  /\ last.fins[1].batch # <<>>
  /\ \A i \in Range(last.fins[1].batch) : risk_data[i].purged
  /\ purge_conv[last.user] = AWAIT_CONDITION_VERIFICATION
  /\ user_data[last.user].current_condition # None
  /\ verify_prompts[last.user] > 0
  /\ user_data[last.user].risks_to_purge # <<>>
  /\ \A i \in Range(user_data[last.user].risks_to_purge) : ~risk_data[i].purged

\* The Finalize runs of the step just taken that touched a record of rtp.
FinalizedInStep(rtp) ==
  {k \in 1..Len(last'.fins) : Range(last'.fins[k].batch) \cap Range(rtp) # {}}

C13_ApproveFinalizesAndDiscards ==
  [][(/\ last'.op = "purge_verify_approve"
      /\ "risks_to_purge" \in user_data[last'.user].keys)
       => /\ \A i \in Range(user_data[last'.user].risks_to_purge) :
               risk_data'[i].purged
          /\ user_data'[last'.user].keys \cap SessionKeys = {}]_vars

\* C14: a decision for a requester whose session holds no purge request is
\* answered 'no longer valid' (unless the answer itself cannot be sent) and
\* changes nothing: no store is written, no Finalize runs (so no delete), no
\* session and no conversation changes, no condition is selected and no
\* admin is prompted.
C14_StaleDecisionChangesNothing ==
  [][(/\ last'.op \in {"purge_verify_approve", "purge_verify_deny"}
      /\ "risks_to_purge" \notin user_data[last'.user].keys)
       => /\ last'.reply = "invalid" \/ last'.raised
          /\ last'.reply \in {"invalid", "none"}
          /\ last'.fins = <<>> /\ ~last'.saved
          /\ risk_data' = risk_data
          /\ conditions_data' = conditions_data
          /\ user_data' = user_data
          /\ purge_conv' = purge_conv
          /\ seerisk_buttons' = seerisk_buttons
          /\ verify_prompts'[last'.user] <= verify_prompts[last'.user]]_vars

\* A decision answered 'no longer valid' for a requester who has purged
\* records (the request was approved before) and no purge request.
C14_StaleDecisionAnswered ==
  /\ last.op \in {"purge_verify_approve", "purge_verify_deny"}
  /\ last.reply = "invalid"
  /\ "risks_to_purge" \notin user_data[last.user].keys
  /\ \E i \in RecordsOf(last.user) : risk_data[i].purged

\* C15: a Deny on a pending request never finalizes: the risk store is as
\* before, no Finalize ran, and the request is still in the session with a
\* current_condition.
C15_DenyNeverFinalizes ==
  [][(/\ last'.op = "purge_verify_deny"
      /\ "risks_to_purge" \in user_data[last'.user].keys)
       => /\ last'.fins = <<>> /\ ~last'.saved
          /\ risk_data' = risk_data
          /\ "risks_to_purge" \in user_data'[last'.user].keys
          /\ user_data'[last'.user].risks_to_purge = user_data[last'.user].risks_to_purge
          /\ user_data'[last'.user].current_condition # None]_vars

\* Requester u waits for a decision: the request is in the session and an
\* admin holds a prompt for it.
AwaitsDecision(u) ==
  "risks_to_purge" \in user_data[u].keys /\ verify_prompts[u] > 0

\* C16: deny-loop coverage: with two conditions registered for the group,
\* admins denying for ever and a fair random choice, a request that is
\* never approved (it waits for a decision from some point on) is presented
\* each registered condition again and again as current_condition.
C16_EveryConditionIsPresented ==
  \A u \in Requesters, c \in Range(DenyConditions) :
    <>[]AwaitsDecision(u) => []<>(user_data[u].current_condition = c)

\* A Deny that presented the second of the two registered conditions.
C16_SecondConditionPresented ==
  /\ last.op = "purge_verify_deny"
  /\ last.reply = "condition"
  /\ AwaitsDecision(last.user)
  /\ Len(Get(conditions_data, "g1", <<>>)) = 2
  /\ user_data[last.user].current_condition = DenyConditions[2]

\* A step user u can cause while their purge conversation is open: the
\* buttons of the confirmation prompt, '/purge' with or without an
\* argument, '/cancel'.
RequesterStep(u) ==
  \/ \E edited \in Bool : PurgeCancelButton(u, edited)
  \/ \E fail \in ConfirmFails : PurgeConfirmButton(u, fail)
  \/ \E arg \in Users \cup {None}, entry \in Bool, replied \in Bool :
       PurgeRegular(u, arg, entry, replied)
  \/ \E sent \in Bool : CancelCommand(u, sent)

\* C17: once the workflow of a requester is in AWAIT_CONDITION_VERIFICATION,
\* no step of the requester changes the workflow state or the pending
\* request (risks_to_purge and current_condition).
C17_NoRequesterExitFromAwait ==
  [][\A u \in Users :
       (purge_conv[u] = AWAIT_CONDITION_VERIFICATION /\ RequesterStep(u)) =>
          /\ purge_conv'[u] = AWAIT_CONDITION_VERIFICATION
          /\ ("risks_to_purge" \in user_data'[u].keys)
               <=> ("risks_to_purge" \in user_data[u].keys)
          /\ user_data'[u].risks_to_purge = user_data[u].risks_to_purge
          /\ user_data'[u].current_condition = user_data[u].current_condition]_vars

\* C18: an admin purge of user t is one step: it opens no conversation,
\* writes no session, prompts no admin and leaves the condition store
\* alone; it runs one Finalize on all its candidates, and every record of t
\* whose group has not disabled 'purge' is purged by it, whether or not the
\* group has conditions.
C18_AdminPurgeIsOneStep ==
  [][last'.op = "purge_admin" =>
       /\ purge_conv' = purge_conv
       /\ user_data' = user_data
       /\ verify_prompts' = verify_prompts
       /\ conditions_data' = conditions_data
       /\ \A i \in RecordsOf(last'.user) :
            ~DisabledFor(i) =>
              risk_data'[i].purged /\ risk_data'[i].posted_message_id = None
       /\ last'.cands # <<>> =>
            (Len(last'.fins) = 1 /\ last'.fins[1].batch = last'.cands)]_vars

\* An admin purge whose one Finalize purged a record of a group with a
\* condition together with a record of a group without.
C18_ConditionedRecordPurged ==
  /\ last.op = "purge_admin"
  /\ Len(last.fins) = 1
  /\ \E i, j \in Range(last.fins[1].batch) :
       /\ HasCondition(conditions_data, risk_data[i].group_id)
       /\ ~HasCondition(conditions_data, risk_data[j].group_id)
       /\ risk_data[i].purged /\ risk_data[j].purged
  /\ purge_conv[last.user] = END

\* C19: the reply of an admin purge names every group of a record of the
\* target that was left out because the group has disabled 'purge'.
C19_SkippedGroupsAreNamed ==
  last.op = "purge_admin" =>
    \A i \in RecordsOf(last.user) :
      DisabledFor(i) => risk_data[i].group_id \in last.named

\* C20: '/purge <target>' by an actor who is no admin is rejected with a
\* warning and changes nothing: no purge request is stored, no workflow
\* state is entered, the risk store is as before.
C20_NonAdminTargetIsRejected ==
  [][(/\ last'.op \in {"purge_self", "purge_admin"}
      /\ last'.arg # None
      /\ \E a \in Users : ~is_admin(a) /\ \E entry \in Bool, replied \in Bool :
           PurgeTargeted(a, last'.arg, entry, replied))
       => /\ last'.reply = "warning"
          /\ user_data' = user_data
          /\ purge_conv' = purge_conv
          /\ risk_data' = risk_data]_vars


\* The statuses of a member who is neither administrator nor owner.
NonAdminStatuses == {"member", "restricted"}

PurgeStepOps ==
  {"purge_cancel", "purge_confirm", "purge_verify_approve", "purge_verify_deny"}

\* C22: no gateway failure propagates out of a purge-workflow step: a run of
\* the confirmation, condition-selection or verification handler is never
\* left by an exception of a gateway call.
C22_NoGatewayFailurePropagates ==
  [][last'.op \in PurgeStepOps => ~last'.raised]_vars


\* The messages of kind k among msgs, in order.
RECURSIVE OfKinds(_, _)
OfKinds(msgs, ks) ==
  IF msgs = <<>> THEN <<>>
  ELSE (IF Head(msgs).kind \in ks THEN <<Head(msgs)>> ELSE <<>>) \o OfKinds(Tail(msgs), ks)

\* The summaries the counts of the Finalize runs fins call for, in order.
SummariesOf(fins) ==
  [i \in 1..Len(fins) |->
     [kind |-> "counts", success_count |-> fins[i].success_count,
      failure_count |-> fins[i].failure_count]]

\* The kinds of message that state an outcome of the workflow.
SummaryKinds == {"nothing", "cancelled", "counts"}

\* The handler run that led to the primed state ended the workflow of the
\* user it acted for: nothing to purge, cancel, a confirm that returned END,
\* an approval or a deny that finalized, or an admin purge.
TerminalRun ==
  /\ ~last'.raised
  /\ \/ last'.op = "purge_admin"
     \/ last'.op = "purge_self" /\ last'.cands = <<>>
     \/ last'.op = "purge_cancel"
     \/ last'.op = "purge_confirm" /\ purge_conv'[last'.user] = END
     \/ last'.op \in {"purge_verify_approve", "purge_verify_deny"} /\ last'.fins # <<>>

C24_SaveIsAtomic ==
  [][(store_proc.pc # "idle" \/ store_proc'.pc # "idle") =>
       \/ FileAt(files', "risk") = FileAt(files, "risk")
       \/ FileAt(files', "risk") = Put(NoFiles, "risk", Dump(store_proc'.data))]_vars

\* The process crashed while json.dump was writing a mapping other than the
\* stored one: the temporary file is cut short and the store file still
\* holds the previous mapping, complete.
C24_CrashedMidWrite ==
  /\ store_proc.pc = "idle" /\ store_proc.crashed
  /\ "tmp" \in DOMAIN files /\ files["tmp"] # <<>> /\ ~IsJson(files["tmp"])
  /\ "risk" \in DOMAIN files /\ IsJson(files["risk"])
  /\ Parse(files["risk"]) # <<>>
  /\ Parse(files["risk"]) # store_proc.data


\* C25: loading the Risk Store never fails: with no file it returns the
\* empty mapping; with a file json cannot read it returns the empty mapping
\* and the corrupt text is moved aside, away from the store's path.
C25_LoadNeverFails ==
  [][\A renamed \in Bool :
       LoadRisk(renamed) =>
         /\ store_proc'.load_status = "returned"
         /\ "risk" \notin DOMAIN files => store_proc'.load_value = <<>>
         /\ ("risk" \in DOMAIN files /\ ~IsJson(files["risk"])) =>
              /\ store_proc'.load_value = <<>>
              /\ "risk" \notin DOMAIN files'
              /\ Get(files', "corrupted", <<>>) = files["risk"]]_vars


\* C26: after any sequence of /addcondition and /removecondition, the
\* Condition Store has no group key with an empty list; a remove deletes
\* exactly the conditions of that group with the given id, writes the store
\* only when something was removed, and otherwise reports 'not found' and
\* leaves the store unchanged.
C26_NoEmptyGroupKey ==
  /\ [](\A g \in DOMAIN conditions_data : conditions_data[g] # <<>>)
  /\ [][\A g \in Groups, id \in GroupConditionIds :
          RemoveCondition(g, id) =>
            LET before == Get(conditions_data, g, <<>>)
                after == Get(conditions_data', g, <<>>)
                found == \E i \in 1..Len(before) : before[i] = id
            IN /\ after = SelectSeq(before, LAMBDA c : c # id)
               /\ \A h \in Groups \ {g} :
                    FileAt(conditions_data', h) = FileAt(conditions_data, h)
               /\ last'.saved = found
               /\ last'.reply = IF found THEN "removed" ELSE "not_found"
               /\ ~found => conditions_data' = conditions_data]_vars

\* A remove took the last condition of g1, and with it the key of g1, while
\* g2 kept its condition.
C26_LastConditionRemoved ==
  /\ last.op = "removecondition" /\ last.reply = "removed"
  /\ DOMAIN conditions_data = {"g2"}


\* C27: condition ids are unique within a group: no two conditions of one
\* group share an id.
C27_IdsUniqueInGroup ==
  \A g \in DOMAIN conditions_data :
    \A i, j \in 1..Len(conditions_data[g]) :
      conditions_data[g][i] = conditions_data[g][j] => i = j


\* C28: whenever the purge workflow of a user is idle (no purge conversation
\* open), the user's session holds no Purge Request data: neither
\* risks_to_purge, nor a partition, nor current_condition.
C28_IdleSessionHoldsNoRequest ==
  \A u \in Users : purge_conv[u] = END => user_data[u].keys = {}


C30_ReferenceOnlyWhileMessageExists ==
  \A i \in 1..Len(risk_data) :
    risk_data[i].posted_message_id # None => i \notin expired


\* The step sends the media of record r to its group.
PostsMedia(r) ==
  \/ \E removed \in Bool : PostRisk(r, TRUE, removed)
  \/ \E removed \in Bool : PostRiskWithTaunt(r, TRUE, removed)
  \/ \E u \in Users, ended \in Bool : beg_conv[u] = r /\ BegYes(u, TRUE, ended)
  \/ \E g \in Groups : PeriodicRandomRiskCheck(g, r, TRUE)

\* C31: once a record is purged its media is never posted to a group
\* again: no step of the 'Post Now', 'Post with Taunt' and beg callbacks or
\* of the periodic job sends the media of a record whose purged flag is
\* true.
C31_PurgedMediaNeverPosted ==
  [][\A r \in 1..Len(risk_data) : risk_data[r].purged => ~PostsMedia(r)]_vars


AdminStatuses == MemberStatuses \ NonAdminStatuses

\* C32: for every static command c and every state of the stores, after a
\* group admin runs /disable c in a group, c is in that group's
\* disabled-commands list.
C32_DisabledAfterDisable ==
  [][\A g \in Groups, c \in StaticTags, status \in AdminStatuses :
       DisableBy(g, c, status, "none") => c \in Get(disabled_commands', g, {})]_vars

\* C33: /disable c followed by /enable c by a group admin removes c from
\* the group's disabled list, for every static command c, 'enable' and
\* 'disable' included: after an admin's /enable c the list of the group
\* does not hold c; and no group key is kept with an empty list.
C33_DisableEnableRoundTrip ==
  /\ [](\A g \in DOMAIN disabled_commands : disabled_commands[g] # {})
  /\ [][\A g \in Groups, c \in StaticTags, status \in AdminStatuses :
         EnableBy(g, c, status, "none") => c \notin Get(disabled_commands', g, {})]_vars


\* The lucky step for user u stores exactly one new record for u, marked as
\* not posted, and sends nothing to a group: no record's message reference
\* changes and no message is left in a group.
LuckyStoresOneUnposted(u) ==
  /\ Len(risk_data') = Len(risk_data) + 1
  /\ SubSeq(risk_data', 1, Len(risk_data)) = risk_data
  /\ risk_data'[Len(risk_data')].user_id = u
  /\ risk_data'[Len(risk_data')].posted_message_id = None
  /\ ~risk_data'[Len(risk_data')].risk_failed
  /\ ~risk_data'[Len(risk_data')].purged
  /\ untracked' = untracked /\ deletion_jobs' = deletion_jobs

C35_NotifiedAdminsAndCondition ==
  last.reply = "condition" =>
    LET rtp == user_data[last.user].risks_to_purge
        groups == {risk_data[i].group_id : i \in Range(rtp)}
    IN /\ last.admin_ids =
            {a \in DOMAIN admin_data : admin_data[a] \cap groups # {}} \cup {OWNER_ID}
       /\ \E g \in groups \cap DOMAIN conditions_data :
            user_data[last.user].current_condition \in Range(conditions_data[g])

\* A condition was selected for a request on g1 alone: the owner and g1's
\* admin are notified, g2's admin and the admin without a group are not.
C35_OnlyG1AdminNotified ==
  /\ last.reply = "condition"
  /\ last.admin_ids = {OWNER_ID, 4}
  /\ user_data[last.user].current_condition = 1
  /\ Len(risk_data) = 2


\* The last handler run brought the purge workflow of user u to a terminal
\* outcome: the request was cancelled, completed at once on confirmation,
\* or approved by an admin.
TerminalOutcome(u) ==
  /\ last.user = u
  /\ \/ last.op = "purge_cancel" /\ last.reply = "cancelled"
     \/ last.op = "purge_confirm" /\ Msg("done") \in Range(last.msgs)
     \/ last.op = "purge_verify_approve" /\ last.reply = "summary"

\* C36: after any terminal outcome of a purge workflow (cancel, immediate
\* completion, approval) the requester's conversation is back in IDLE, the
\* state in which a later /purge enters CONFIRMING and the buttons of that
\* request are handled.
C36_TerminalOutcomeIsIdle ==
  \A u \in Users : TerminalOutcome(u) => purge_conv[u] = END


\* The prompt is the one sent for the current condition of the request that
\* the session of its requester holds.
CurrentPrompt(p) ==
  /\ HasPurgeRequest(user_data[p.user])
  /\ p.cond = user_data[p.user].current_condition
  /\ p.batch = user_data[p.user].risks_to_purge

\* C37: an approval finalizes pending_with_condition only when it is given
\* on the prompt for the request's current condition: an Approve pressed on
\* a prompt that a Deny superseded, or that belongs to an earlier request of
\* the same user, performs no finalize.
C37_ApprovalOnCurrentPromptOnly ==
  [][\A p \in admin_prompts :
       (AdminVerification(p, "approve") /\ last'.fins # <<>>) => CurrentPrompt(p)]_vars


\* ---------------------------------------------------------------- C38
\* The groups the pending request of user u references.
ReferencedGroups(u) ==
  {risk_data[i].group_id :
     i \in {j \in Range(user_data[u].risks_to_purge) : j \in DOMAIN risk_data}}

\* The holder of prompt p administers a group the request references, or is
\* the owner.
EntitledActor(p) ==
  \/ p.admin = OWNER_ID
  \/ admin_data[p.admin] \cap ReferencedGroups(p.user) # {}

\* C38: a decision changes the Risk Store only when the actor who pressed
\* the button is an admin of a group the request references, or the owner; a
\* press by any other actor leaves every record as it was.
C38_OnlyEntitledActorDecides ==
  [][\A p \in admin_prompts, decision \in {"approve", "deny"} :
       (AdminVerification(p, decision) /\ risk_data' # risk_data) => EntitledActor(p)]_vars


\* ---------------------------------------------------------------- C39
\* C39: every group message posted for a record is tracked by the record:
\* after a Finalize whose delete_message calls all succeeded, no record of
\* its batch has a message left in the group that no record references.
C39_NoMessageLeftAfterFinalize ==
  [][\A t \in RiskUsers :
       PurgeAdmin(OWNER_ID, t, TRUE) =>
         \A k \in DOMAIN last'.fins :
           last'.fins[k].failed = {} =>
             \A i \in Range(last'.fins[k].batch) :
               risk_data'[i].purged => i \notin untracked']_vars


\* ---------------------------------------------------------------- C40
\* The risk ids of the batches the Finalize runs of history lg were given.
InBatches(lg) == UNION {Range(lg.fins[k].batch) : k \in DOMAIN lg.fins}

\* Record i has the purged flag and the message reference it had before
\* the step.
RecordKept(i) ==
  /\ i \in DOMAIN risk_data'
  /\ risk_data'[i].purged = risk_data[i].purged
  /\ risk_data'[i].posted_message_id = risk_data[i].posted_message_id

\* C40: Finalize changes only the records of its batch: after a step that
\* ran Finalize, every record outside its batches, of the same user or of
\* another, has the purged flag and the message reference it had before.
C40_FinalizeChangesOnlyItsBatch ==
  [][last'.fins # <<>> =>
       \A i \in DOMAIN risk_data \ InBatches(last') : RecordKept(i)]_vars

\* A Finalize has deleted a message of its batch while another record of the
\* same user, outside the batch, is unpurged and references its message.
C40_SameUserRecordOutsideBatch ==
  \E k \in DOMAIN last.fins :
    /\ last.fins[k].deleted # {}
    /\ \E i \in DOMAIN risk_data \ InBatches(last), j \in last.fins[k].deleted :
         /\ risk_data[i].user_id = risk_data[j].user_id
         /\ ~risk_data[i].purged
         /\ risk_data[i].posted_message_id # None

====
